---- MODULE Spec2Model ----
(***************************************************************************)
(* Checkpointing hook (mkusaka/ccheck): the Metadata Store with its lock   *)
(* file and temp-file-plus-rename persistence (src/src/lib/logger.ts), the *)
(* shadow repository manager (src/src/lib/config.ts) and the hook entry    *)
(* point (src/src/checkpoint-manager.ts).                                  *)
(*                                                                         *)
(* Every hook invocation is one short-lived operating-system process.      *)
(* The processes share the file system: the lock marker, the metadata      *)
(* document, its temporary file and the shadow repositories.  Each await   *)
(* on a file-system or git call is one step; steps of different processes  *)
(* interleave freely and a process may be killed between any two steps.    *)
(***************************************************************************)
EXTENDS Integers, Sequences, FiniteSets, TLC

(* ------------------------------ bounds -------------------------------- *)
\* Number of hook invocations (processes) that ever run.
NProcs == 3
\* Wall-clock time advances in steps of TickMs milliseconds up to MaxClock.
TickMs == 6000
MaxClock == 13000
\* keepCount arguments tried for cleanupOldMetadata: 0..MaxKeep.
MaxKeep == 1
\* Processes (hook invocations, direct calls) alive at the same time; a
\* killed process is not alive.
MaxLive == 2
\* File contents tried: 1..MaxContent.
MaxContent == 2
\* Checkpoint commits ever made in a shadow repository.
MaxCommits == 2

Procs == 1..NProcs
Projects == {"projA"}

(* ------------------------- program constants -------------------------- *)
\* acquireLock(maxWaitTime = 5000)
maxWaitTime == 5000
\* if (Date.now() - stats.mtimeMs > 10000)
staleThreshold == 10000

\* The tool names handlePreToolUse and handlePostToolUse go on with.
PreTools == {"Write", "Edit", "MultiEdit", "Manual"}
PostTools == {"Write", "Edit", "MultiEdit"}

\* tool_response payloads are named by their `success` member.
NoResponse == "undefined"
\* A commit hash is the identity of the invocation that created the commit
\* (every invocation commits at most once); NoHash is null.
NoHash == 0
NoTime == -1
NoProc == 0

(* --------------------- the metadata document -------------------------- *)
\* MetadataStore: { [projectHash]: { [checkpointHash]: record } }.  A JS
\* object keeps its string keys in insertion order, so the inner object is
\* a sequence of entries [hash, rec].
EmptyDoc == [x \in {} |-> <<>>]

Keys(entries) == {entries[i].hash : i \in 1..Len(entries)}

HasRecord(doc, proj, h) == proj \in DOMAIN doc /\ h \in Keys(doc[proj])

RecordOf(doc, proj, h) ==
  LET es == doc[proj]
      i == CHOOSE j \in 1..Len(es) : es[j].hash = h
  IN es[i].rec

\* metadata[projectHash][checkpointHash] = rec on an object: an existing key
\* keeps its place, a new key is appended.
SetEntry(entries, h, r) ==
  IF h \in Keys(entries)
  THEN [i \in 1..Len(entries) |->
          IF entries[i].hash = h THEN [hash |-> h, rec |-> r] ELSE entries[i]]
  ELSE Append(entries, [hash |-> h, rec |-> r])

WithProject(doc, proj, entries) ==
  [q \in DOMAIN doc \cup {proj} |-> IF q = proj THEN entries ELSE doc[q]]

\* extractFiles(toolName, toolInput)
extractFiles(toolName, filePath) ==
  IF toolName \in {"Write", "Edit", "MultiEdit"} /\ filePath # ""
  THEN <<filePath>>
  ELSE <<>>

\* The record addCheckpoint builds.
NewRecord(ts, toolName, filePath, sessionId) ==
  [timestamp |-> ts,
   tool_name |-> toolName,
   tool_input |-> filePath,
   session_id |-> sessionId,
   status |-> "pending",
   files_affected |-> extractFiles(toolName, filePath),
   status_updated |-> NoTime,
   tool_response |-> NoResponse]

\* The same with the project's object made anew on every call.
AddMutation_Replace(doc, proj, h, r) ==
  WithProject(doc, proj, <<[hash |-> h, rec |-> r]>>)

\* The same with an existing record left as it is.
AddMutation_KeepExisting(doc, proj, h, r) ==
  IF HasRecord(doc, proj, h)
  THEN doc
  ELSE WithProject(doc, proj,
         Append(IF proj \in DOMAIN doc THEN doc[proj] ELSE <<>>,
                [hash |-> h, rec |-> r]))

\* The same with the new members spread over an existing record.
AddMutation_Merge(doc, proj, h, r) ==
  LET inner == IF proj \in DOMAIN doc THEN doc[proj] ELSE <<>>
      old == IF h \in Keys(inner) THEN RecordOf(doc, proj, h) ELSE r
  IN WithProject(doc, proj,
       SetEntry(inner, h,
                [r EXCEPT !.status_updated = old.status_updated,
                          !.tool_response = old.tool_response]))

\* addCheckpoint's change of the loaded document.
AddMutation(doc, proj, h, r) ==
  LET inner == IF proj \in DOMAIN doc THEN doc[proj] ELSE <<>>
  IN WithProject(doc, proj, SetEntry(inner, h, r))

\* The same with only the status assigned.
UpdateMutation_StatusOnly(doc, proj, h, status, ts, resp) ==
  IF HasRecord(doc, proj, h)
  THEN LET old == RecordOf(doc, proj, h)
       IN WithProject(doc, proj,
                      SetEntry(doc[proj], h, [old EXCEPT !.status = status]))
  ELSE doc

\* updateCheckpointStatus's change of the loaded document.
UpdateMutation(doc, proj, h, status, ts, resp) ==
  IF HasRecord(doc, proj, h)
  THEN LET old == RecordOf(doc, proj, h)
           new == [old EXCEPT !.status = status,
                              !.status_updated = ts,
                              !.tool_response =
                                 IF resp # NoResponse THEN resp ELSE @]
       IN WithProject(doc, proj, SetEntry(doc[proj], h, new))
  ELSE doc

\* Array.prototype.sort with (a, b) => time(b) - time(a): stable, newest
\* first; records with equal timestamps keep their insertion order.
\* The same with the comparator turned round: oldest first.
RECURSIVE InsertByTime_OldestFirst(_, _)
InsertByTime_OldestFirst(sorted, e) ==
  IF sorted = <<>> THEN <<e>>
  ELSE IF Head(sorted).rec.timestamp <= e.rec.timestamp
       THEN <<Head(sorted)>> \o InsertByTime_OldestFirst(Tail(sorted), e)
       ELSE <<e>> \o sorted

RECURSIVE InsertByTime(_, _)
InsertByTime(sorted, e) ==
  IF sorted = <<>> THEN <<e>>
  ELSE IF Head(sorted).rec.timestamp >= e.rec.timestamp
       THEN <<Head(sorted)>> \o InsertByTime(Tail(sorted), e)
       ELSE <<e>> \o sorted

RECURSIVE SortNewestFirst(_)
SortNewestFirst(entries) ==
  IF entries = <<>> THEN <<>>
  ELSE InsertByTime(SortNewestFirst(SubSeq(entries, 1, Len(entries) - 1)),
                    entries[Len(entries)])

\* getCheckpointMetadata(projectHash, checkpointHash) on a loaded document;
\* NullRecord is null.
NullRecord == [status |-> "null"]
getCheckpointMetadata(doc, proj, h) ==
  IF HasRecord(doc, proj, h) THEN RecordOf(doc, proj, h) ELSE NullRecord

\* listProjectCheckpoints(projectHash) on a loaded document.
listProjectCheckpoints(doc, proj) ==
  IF proj \notin DOMAIN doc THEN <<>> ELSE SortNewestFirst(doc[proj])

RECURSIVE RemoveKeys(_, _)
RemoveKeys(entries, ks) ==
  IF entries = <<>> THEN <<>>
  ELSE IF Head(entries).hash \in ks
       THEN RemoveKeys(Tail(entries), ks)
       ELSE <<Head(entries)>> \o RemoveKeys(Tail(entries), ks)

\* The same without the sort: the first keepCount entries are kept.
CleanupMutation_KeepFirst(doc, proj, keepCount) ==
  WithProject(doc, proj,
              SubSeq(doc[proj], 1,
                     IF keepCount < Len(doc[proj])
                     THEN keepCount ELSE Len(doc[proj])))

\* cleanupOldMetadata's change of the loaded document (project present).
CleanupMutation(doc, proj, keepCount) ==
  LET sorted == SortNewestFirst(doc[proj])
      old == {sorted[i].hash : i \in (keepCount + 1)..Len(sorted)}
  IN WithProject(doc, proj, RemoveKeys(doc[proj], old))

\* Whether cleanupOldMetadata rewrites the document.
CleanupSaves(doc, proj, keepCount) ==
  proj \in DOMAIN doc /\ Len(doc[proj]) > keepCount


(* ------------------------------ state --------------------------------- *)
VARIABLES
  now,           \* Date.now(), in milliseconds
  lockFile,      \* the lock marker .metadata.lock
  metadataFile,  \* the inode at metadata.json
  tempFile,      \* the inode at metadata.json.tmp
  projectRepo,   \* per project: the project directory is a git repository
  shadow,        \* per project: the shadow repository
  pc,            \* per process: the await it is at
  ev,            \* per process: the event or call it serves
  startTime,     \* per process: acquireLock's startTime
  target,        \* per process: the checkpoint hash it works on
  mem,           \* per process: the document loaded and mutated in memory
  result,        \* per process: how its handler or Metadata Store call ended
  exitCode,      \* per process: what main() returned
  seen,          \* per process: creator of the marker its stat judged stale
  overtaken,     \* per process: the marker was touched between stat and retry
  ideal,         \* the document if every save had run alone, in save order
  projectTree,   \* the files of the project directory and their contents
  repo,          \* the shadow worktree: its branch, its files, its commits
  last,          \* the last call on the GitCheckpointManager and its result
  configFile,    \* the file at config.json
  config,        \* the CheckpointConfig object of the invocation
  probe          \* the last shouldExcludeFile call and its result

fileVars == <<lockFile, metadataFile, tempFile>>
configVars == <<configFile, config, probe>>
repoVars == <<projectTree, repo, last, configVars>>
gitVars == <<projectRepo, shadow, repoVars>>
localVars == <<ev, startTime, target, mem>>
ghostVars == <<seen, overtaken, ideal>>
vars == <<now, fileVars, gitVars, pc, localVars, result, exitCode, ghostVars>>

NoLock == [exists |-> FALSE, mtime |-> NoTime, owner |-> NoProc]
NoFile == [state |-> "absent", doc |-> EmptyDoc, writers |-> {}]
NoEvent ==
  [kind |-> "none", tool |-> "", file |-> "", resp |-> NoResponse,
   keep |-> 0, proj |-> "", wellFormed |-> TRUE,
   enabled |-> TRUE, excluded |-> FALSE, status |-> ""]
NoExit == -1

\* File names of a project: one that syncFiles copies and a hidden one,
\* which it skips (basename starts with '.' and is not .gitignore).
Files == {"a.txt", ".env"}
Hidden(f) == f = ".env"
\* A file's content is a number from 1 on; NoContent: there is no such file.
NoContent == 0
Contents == 0..MaxContent
EmptyTree == [f \in Files |-> NoContent]
\* The project before the first edit: just the hidden file.
InitialTree == [f \in Files |-> IF Hidden(f) THEN 1 ELSE NoContent]

\* The worktree before initCheckpointRepo: no branch, no files, no commits.
\* `name` is the name of the branch the worktree's repository starts on,
\* `tip` that branch's commit, `attached` whether HEAD is on the branch
\* (the commit HEAD resolves to is shadow[project].head), `files` the files
\* of the worktree directory and `history` the commits ever made, by hash.
NoRepo ==
  [name |-> "", tip |-> NoHash, attached |-> TRUE, files |-> EmptyTree,
   history |-> <<>>]

\* config.json when it is not there; no CheckpointConfig constructed yet;
\* no shouldExcludeFile call yet.
NoConfigFile == [state |-> "missing"]
NoConfig == [loaded |-> FALSE]
NoProbe == [path |-> <<>>]

\* No call yet.
NoCall ==
  [op |-> "none", text |-> <<>>, dry |-> FALSE, hash |-> NoHash,
   ok |-> FALSE, engine |-> FALSE, failed |-> "none", list |-> <<>>]

Init ==
  /\ now = 0
  /\ lockFile = NoLock
  /\ metadataFile = NoFile
  /\ tempFile = NoFile
  /\ projectRepo = [pr \in Projects |-> FALSE]
  /\ shadow = [pr \in Projects |->
                 [state |-> "absent", commits |-> {}, head |-> NoHash]]
  /\ pc = [p \in Procs |-> "idle"]
  /\ ev = [p \in Procs |-> NoEvent]
  /\ startTime = [p \in Procs |-> NoTime]
  /\ target = [p \in Procs |-> NoHash]
  /\ mem = [p \in Procs |-> EmptyDoc]
  /\ result = [p \in Procs |-> "none"]
  /\ exitCode = [p \in Procs |-> NoExit]
  /\ seen = [p \in Procs |-> NoProc]
  /\ overtaken = [p \in Procs |-> FALSE]
  /\ ideal = EmptyDoc
  /\ projectTree = InitialTree
  /\ repo = NoRepo
  /\ last = NoCall
  /\ configFile = NoConfigFile
  /\ config = NoConfig
  /\ probe = NoProbe

\* A document that does not parse: what a save interrupted or overwritten
\* in place leaves at metadata.json (see C7), or damage from outside.
MalformedFile == [state |-> "partial", doc |-> EmptyDoc, writers |-> {}]

\* The state before the first call of a run in which metadata.json is
\* missing or does not parse.
InitUnreadable ==
  /\ now = 0
  /\ lockFile = NoLock
  /\ metadataFile \in {NoFile, MalformedFile}
  /\ tempFile = NoFile
  /\ projectRepo = [pr \in Projects |-> FALSE]
  /\ shadow = [pr \in Projects |->
                 [state |-> "absent", commits |-> {}, head |-> NoHash]]
  /\ pc = [p \in Procs |-> "idle"]
  /\ ev = [p \in Procs |-> NoEvent]
  /\ startTime = [p \in Procs |-> NoTime]
  /\ target = [p \in Procs |-> NoHash]
  /\ mem = [p \in Procs |-> EmptyDoc]
  /\ result = [p \in Procs |-> "none"]
  /\ exitCode = [p \in Procs |-> NoExit]
  /\ seen = [p \in Procs |-> NoProc]
  /\ overtaken = [p \in Procs |-> FALSE]
  /\ ideal = EmptyDoc
  /\ projectTree = InitialTree
  /\ repo = NoRepo
  /\ last = NoCall
  /\ configFile = NoConfigFile
  /\ config = NoConfig
  /\ probe = NoProbe

\* A second project that shares the document: its hash is a member of the
\* outer object beside the project the calls are about.
OtherProject == "projB"

\* The document after a checkpoint of the other project was added and
\* updated by an earlier run.
SharedDoc ==
  [q \in {OtherProject} |->
     <<[hash |-> 1,
        rec |-> [NewRecord(0, "Write", "b.txt", 1)
                   EXCEPT !.status = "success",
                          !.status_updated = 0,
                          !.tool_response = "{success:true}"]]>>]

SharedFile == [state |-> "complete", doc |-> SharedDoc, writers |-> {}]

\* The state before the first call of a run that finds the other project's
\* record in metadata.json.
InitShared ==
  /\ now = 0
  /\ lockFile = NoLock
  /\ metadataFile = SharedFile
  /\ tempFile = NoFile
  /\ projectRepo = [pr \in Projects |-> FALSE]
  /\ shadow = [pr \in Projects |->
                 [state |-> "absent", commits |-> {}, head |-> NoHash]]
  /\ pc = [p \in Procs |-> "idle"]
  /\ ev = [p \in Procs |-> NoEvent]
  /\ startTime = [p \in Procs |-> NoTime]
  /\ target = [p \in Procs |-> NoHash]
  /\ mem = [p \in Procs |-> EmptyDoc]
  /\ result = [p \in Procs |-> "none"]
  /\ exitCode = [p \in Procs |-> NoExit]
  /\ seen = [p \in Procs |-> NoProc]
  /\ overtaken = [p \in Procs |-> FALSE]
  /\ ideal = SharedDoc
  /\ projectTree = InitialTree
  /\ repo = NoRepo
  /\ last = NoCall
  /\ configFile = NoConfigFile
  /\ config = NoConfig
  /\ probe = NoProbe

\* Between a successful acquireLock and the end of releaseLock.
CriticalPcs == {"load", "wopen", "wwrite", "rename", "release"}
InCritical(p) == pc[p] \in CriticalPcs

\* The content a reader finds at a path: loadMetadata's result.  A missing
\* file and one that does not parse both give the empty document.
loadMetadata(file) == IF file.state = "complete" THEN file.doc ELSE EmptyDoc

(* ------------------------------ time ---------------------------------- *)
Tick ==
  /\ now + TickMs <= MaxClock
  /\ now' = now + TickMs
  /\ UNCHANGED <<fileVars, gitVars, pc, localVars, result, exitCode,
                 ghostVars>>

(* ------------------------ the hook entry point ------------------------ *)
Set(f, p, v) == [f EXCEPT ![p] = v]

\* (tool_name, tool_input.file_path) of the events explored: "Write" for
\* the file-mutating tools, "Bash" for every tool that is not
\* checkpoint-worthy, "" for no file_path.
EventTargets == {<<"Write", "a.txt">>, <<"Bash", "">>}
ManualTarget == <<"Manual", "">>
EventResponses == {"{success:true}", "{success:false}"}

\* A before-mutation event, with what the invocation's configuration says:
\* `enabled` is config.enabled and `excluded` is
\* config.shouldExcludeFile(filePath).
PreEvents(targets) ==
  {[kind |-> "pre", tool |-> t[1], file |-> t[2], resp |-> NoResponse,
    keep |-> 0, proj |-> pr, wellFormed |-> TRUE,
    enabled |-> en, excluded |-> ex, status |-> ""] :
      t \in targets, pr \in Projects, en \in BOOLEAN, ex \in BOOLEAN}

\* An after-mutation event (it carries tool_response).
PostEvents(targets) ==
  {[kind |-> "post", tool |-> t[1], file |-> t[2], resp |-> r,
    keep |-> 0, proj |-> pr, wellFormed |-> TRUE,
    enabled |-> en, excluded |-> FALSE, status |-> ""] :
      t \in targets, r \in EventResponses, pr \in Projects, en \in BOOLEAN}

\* Input that is not JSON.
MalformedEvents ==
  {[kind |-> "pre", tool |-> "", file |-> "", resp |-> NoResponse,
    keep |-> 0, proj |-> pr, wellFormed |-> FALSE,
    enabled |-> TRUE, excluded |-> FALSE, status |-> ""] : pr \in Projects}

\* What a hook invocation may be given when invocations overlap.
Events ==
  PreEvents(EventTargets)
    \cup PostEvents(EventTargets \cup {ManualTarget})
    \cup MalformedEvents

\* What a hook invocation may be given when it runs alone: manual
\* checkpoints as well.
EventsSeq == Events \cup PreEvents({ManualTarget})

\* The events of operations: an operation is one tool call of a session,
\* announced by a before-mutation event and, once that invocation has
\* ended and the tool has run, reported by an after-mutation event.  The
\* last invocation is given the after-mutation event of the operation `op`
\* of one of the earlier invocations, which are given before-mutation
\* events.
OperationEvents(p, ended) ==
  IF p < NProcs
  THEN {e \in PreEvents(EventTargets) : e.enabled}
  ELSE {[kind |-> "post", tool |-> "Write", file |-> "a.txt", resp |-> r,
         keep |-> 0, proj |-> pr, wellFormed |-> TRUE,
         enabled |-> TRUE, excluded |-> FALSE, status |-> "", op |-> q] :
           r \in EventResponses, pr \in Projects, q \in ended}

\* Direct calls of the Metadata Store by some other program of the
\* repository: addCheckpoint(proj, h, tool, input, session),
\* updateCheckpointStatus(proj, h, status, resp) and
\* cleanupOldMetadata(proj, keepCount).
Call(kind, pr, h, tool, file, status, r, k) ==
  [kind |-> kind, tool |-> tool, file |-> file, resp |-> r,
   keep |-> k, proj |-> pr, wellFormed |-> TRUE,
   enabled |-> TRUE, excluded |-> FALSE, status |-> status, hash |-> h]

\* The calls explored when calls overlap.
Calls(p) ==
  {Call("add", pr, p, "Write", "a.txt", "", NoResponse, 0) : pr \in Projects}
  \cup
  {Call("update", pr, h, "Write", "a.txt", "success", "{success:true}", 0) :
      pr \in Projects, h \in 1..(p - 1)}
  \cup
  {Call("cleanup", pr, NoHash, "", "", "", NoResponse, k) :
      k \in 0..MaxKeep, pr \in Projects}

\* The calls explored when a call runs alone: a checkpoint hash may be added
\* again, any hash updated with either status, with or without a payload,
\* and one more keepCount.
CallsSeq(p) ==
  {Call("add", pr, h, t[1], t[2], "", NoResponse, 0) :
      pr \in Projects, h \in 1..p, t \in {<<"Write", "a.txt">>, ManualTarget}}
  \cup
  {Call("update", pr, h, "", "", st, r, 0) :
      pr \in Projects, h \in Procs, st \in {"success", "failed"},
      r \in EventResponses \cup {NoResponse}}
  \cup
  {Call("cleanup", pr, NoHash, "", "", "", NoResponse, k) :
      k \in 0..(MaxKeep + 1), pr \in Projects}

IsHook(e) == e.kind \in {"pre", "post"}

\* The invocation of event e ends: main() returns `code` (a direct call has
\* no exit code) and the process, with its memory, is gone; what is kept of
\* the event is whether it was well formed.
Exit(p, e, res, code) ==
  /\ pc' = Set(pc, p, "done")
  /\ result' = Set(result, p, res)
  /\ exitCode' = Set(exitCode, p, IF IsHook(e) THEN code ELSE NoExit)
  /\ ev' = Set(ev, p, [NoEvent EXCEPT !.wellFormed = e.wellFormed])
  /\ startTime' = Set(startTime, p, NoTime)
  /\ target' = Set(target, p, NoHash)
  /\ mem' = Set(mem, p, EmptyDoc)

\* A handler returns 0 without a Metadata Store call of its own failing.
Return(p, res) == Exit(p, ev[p], res, 0)

\* An exception leaves the Metadata Store call.  Neither handler catches
\* it, so in a hook invocation main()'s catch returns 1.
Raise(p, what) == Exit(p, ev[p], what, 1)

\* The process goes on to its next await.
Goto(p, next) ==
  /\ pc' = Set(pc, p, next)
  /\ UNCHANGED <<result, exitCode>>

\* addCheckpoint, updateCheckpointStatus and cleanupOldMetadata start with
\* acquireLock(): const startTime = Date.now().
EnterAcquire(p) ==
  /\ Goto(p, "acquire")
  /\ startTime' = Set(startTime, p, now)

\* The same without the exclusion policy.
PreGoesOn_NoExclusion(e, enabled, excluded) ==
  enabled /\ e.tool \in PreTools

\* handlePreToolUse up to its first await: the configuration, the tool
\* kind and the exclusion policy.  `enabled` is config.enabled and
\* `excluded` is config.shouldExcludeFile(filePath).
PreGoesOn(e, enabled, excluded) ==
  /\ enabled
  /\ e.tool \in PreTools
  /\ ~(e.file # "" /\ excluded)

\* handlePostToolUse up to its first await.
PostGoesOn(e, enabled) == enabled /\ e.tool \in PostTools

Live == {q \in Procs : pc[q] \notin {"idle", "done", "dead"}}

\* main() from the parsed input on: a parse error returns 1; otherwise
\* dispatch on tool_response to a handler, which returns 0 at once or goes
\* on to its first await.
Invoke(p, e) ==
  IF ~e.wellFormed
    THEN Exit(p, e, "none", 1)
  ELSE IF e.kind = "post"
    THEN IF PostGoesOn(e, e.enabled)
         THEN /\ ev' = Set(ev, p, e)
              /\ Goto(p, "list")
              /\ UNCHANGED <<startTime, target, mem>>
         ELSE Exit(p, e, "postSkipped", 0)
  ELSE IF PreGoesOn(e, e.enabled, e.excluded)
         THEN /\ ev' = Set(ev, p, e)
              /\ Goto(p, "initProject")
              /\ UNCHANGED <<startTime, target, mem>>
         ELSE Exit(p, e, "preSkipped", 0)

\* A hook invocation among others: main() up to the handler's first await.
\* Processes are started in the order of their numbers.
Start(p) ==
  /\ pc[p] = "idle"
  /\ \A q \in Procs : q < p => pc[q] # "idle"
  /\ Cardinality(Live) < MaxLive
  /\ \E e \in Events : Invoke(p, e)
  /\ UNCHANGED <<now, fileVars, gitVars, ghostVars>>

\* A process calls addCheckpoint, updateCheckpointStatus or
\* cleanupOldMetadata directly; each starts with acquireLock().
CallStore(p, c) ==
  /\ ev' = Set(ev, p, [k \in DOMAIN NoEvent |-> c[k]])
  /\ target' = Set(target, p, c.hash)
  /\ EnterAcquire(p)
  /\ UNCHANGED <<now, fileVars, gitVars, mem, ghostVars>>

StartCall(p) ==
  /\ pc[p] = "idle"
  /\ \A q \in Procs : q < p => pc[q] # "idle"
  /\ Cardinality(Live) < MaxLive
  /\ \E c \in Calls(p) : CallStore(p, c)

\* A direct call made while the clock can still pass the caller's
\* maxWaitTime.
StartCallInTime(p) ==
  /\ now + TickMs <= MaxClock
  /\ StartCall(p)

\* A hook invocation that runs alone: main() reads standard input to its
\* end (for await (const chunk of process.stdin)).
ReadEvent(p) ==
  /\ pc[p] = "idle"
  /\ \A q \in Procs : q < p => pc[q] # "idle"
  /\ Live = {}
  /\ \E e \in EventsSeq : ev' = Set(ev, p, e)
  /\ Goto(p, "main")
  /\ UNCHANGED <<now, fileVars, gitVars, startTime, target, mem, ghostVars>>

\* ... and then parses and dispatches it.
Dispatch(p) ==
  /\ pc[p] = "main"
  /\ Invoke(p, ev[p])
  /\ UNCHANGED <<now, fileVars, gitVars, ghostVars>>

\* A hook invocation of an operation, running alone.
ReadOperation(p) ==
  /\ pc[p] = "idle"
  /\ \A q \in Procs : q < p => pc[q] # "idle"
  /\ Live = {}
  /\ \E e \in OperationEvents(p, {q \in Procs : q < p /\ pc[q] = "done"}) :
       ev' = Set(ev, p, e)
  /\ Goto(p, "main")
  /\ UNCHANGED <<now, fileVars, gitVars, startTime, target, mem, ghostVars>>

\* A direct call that runs alone.
StartCallAlone(p) ==
  /\ pc[p] = "idle"
  /\ \A q \in Procs : q < p => pc[q] # "idle"
  /\ Live = {}
  /\ \E c \in CallsSeq(p) : CallStore(p, c)

(* ------------------------ the shadow repository ----------------------- *)
\* handlePreToolUse: isGitRepo() / initProjectRepo(); `git init` may fail,
\* and then the handler returns 0.
InitProject(p) ==
  /\ pc[p] = "initProject"
  /\ LET pr == ev[p].proj IN
       \/ /\ projectRepo[pr]
          /\ Goto(p, "initShadow")
          /\ UNCHANGED <<projectRepo, localVars>>
       \/ /\ ~projectRepo[pr]
          /\ projectRepo' = Set(projectRepo, pr, TRUE)
          /\ Goto(p, "initShadow")
          /\ UNCHANGED localVars
       \/ /\ ~projectRepo[pr]
          /\ Return(p, "none")
          /\ UNCHANGED projectRepo
  /\ UNCHANGED <<now, fileVars, shadow, repoVars, ghostVars>>

\* The same with the failure passed on to main().
CheckpointSkipped_Raise(p) == Raise(p, "none")

\* createCheckpoint returned null: "Warning: Could not create checkpoint",
\* return 0.
CheckpointSkipped(p) == Return(p, "none")

\* createCheckpoint: initCheckpointRepo().  An existing directory counts as
\* initialized; otherwise the directory is made, `git init --bare` run and
\* the worktree cloned.  A failing `git init --bare` leaves the directory
\* behind and returns false; a failing clone is not looked at.
InitCheckpointRepo(p) ==
  /\ pc[p] = "initShadow"
  /\ LET pr == ev[p].proj IN
       \/ /\ shadow[pr].state # "absent"
          /\ Goto(p, "commit")
          /\ UNCHANGED <<shadow, localVars>>
       \/ /\ shadow[pr].state = "absent"
          /\ \E outcome \in {"ready", "broken"} :
               shadow' = Set(shadow, pr, [shadow[pr] EXCEPT !.state = outcome])
          /\ Goto(p, "commit")
          /\ UNCHANGED localVars
       \/ /\ shadow[pr].state = "absent"
          /\ \E outcome \in {"absent", "broken"} :
               shadow' = Set(shadow, pr, [shadow[pr] EXCEPT !.state = outcome])
          /\ CheckpointSkipped(p)
  /\ UNCHANGED <<now, fileVars, projectRepo, repoVars, ghostVars>>

\* createCheckpoint: syncFiles, `git add -A`, `git commit --allow-empty`.
\* A commit needs an initialized worktree and may still fail; a non-zero
\* return code (or an exception of syncFiles) returns null.
Commit(p) ==
  /\ pc[p] = "commit"
  /\ LET pr == ev[p].proj IN
       \/ /\ shadow[pr].state = "ready"
          /\ shadow' = Set(shadow, pr,
                           [shadow[pr] EXCEPT !.commits = @ \cup {p},
                                              !.head = p])
          /\ Goto(p, "revparse")
          /\ UNCHANGED localVars
       \/ /\ CheckpointSkipped(p)
          /\ UNCHANGED shadow
  /\ UNCHANGED <<now, fileVars, projectRepo, repoVars, ghostVars>>

\* if (checkpointHash) in handlePreToolUse.
CheckpointCreated_Always(h) == TRUE
CheckpointCreated(h) == h # NoHash

\* createCheckpoint: `git rev-parse HEAD` (the worktree's current head, or a
\* failure that returns null), the note, `git checkout main`; then
\* handlePreToolUse's if (checkpointHash) and addCheckpoint's acquireLock().
RevParse(p) ==
  /\ pc[p] = "revparse"
  /\ \E h \in {shadow[ev[p].proj].head, NoHash} :
       IF CheckpointCreated(h)
       THEN /\ target' = Set(target, p, h)
            /\ EnterAcquire(p)
            /\ UNCHANGED <<ev, mem>>
       ELSE CheckpointSkipped(p)
  /\ UNCHANGED <<now, fileVars, gitVars, ghostVars>>

\* handlePostToolUse: listProjectCheckpoints without the lock; the newest
\* record is the one to update, and with no record the handler returns 0.
ListLatest(p) ==
  /\ pc[p] = "list"
  /\ LET checkpoints ==
           listProjectCheckpoints(loadMetadata(metadataFile), ev[p].proj)
     IN IF Len(checkpoints) > 0
        THEN /\ target' = Set(target, p, checkpoints[1].hash)
             /\ EnterAcquire(p)
             /\ UNCHANGED <<ev, mem>>
        ELSE Return(p, "none")
  /\ UNCHANGED <<now, fileVars, gitVars, ghostVars>>

(* --------------------------- the lock marker -------------------------- *)
\* Waiters that have judged a marker stale and have not yet retried: the
\* marker they looked at is touched by process p.
Overtake(p) ==
  [q \in Procs |->
     overtaken[q]
       \/ (q # p /\ seen[q] # NoProc /\ pc[q] \in {"unlink", "acquire"})]

\* What was noted about a waiting process goes with it when it ends.
Forgotten(p, ov) ==
  /\ seen' = Set(seen, p, NoProc)
  /\ overtaken' = [ov EXCEPT ![p] = FALSE]

\* acquireLock: fse.open(lockFile, 'wx').  It creates the marker when there
\* is none.  On EEXIST the caller sleeps waitInterval and tries again (no
\* change of state) until Date.now() - startTime > maxWaitTime, and then
\* goes on to look at the marker's age.  An open that fails for another
\* reason than EEXIST (rethrown at once) is not followed here.
TryLock(p) ==
  /\ pc[p] = "acquire"
  /\ \/ /\ ~lockFile.exists
        /\ lockFile' = [exists |-> TRUE, mtime |-> now, owner |-> p]
        /\ Goto(p, "load")
        /\ overtaken' = Overtake(p)
     \/ /\ lockFile.exists
        /\ now - startTime[p] > maxWaitTime
        /\ Goto(p, "stat")
        /\ UNCHANGED <<lockFile, overtaken>>
  /\ UNCHANGED <<now, metadataFile, tempFile, gitVars, localVars, seen, ideal>>

\* Date.now() - stats.mtimeMs > 10000
IsStale_Always(age) == TRUE
IsStale(age) == age > staleThreshold

\* The same with a fresh marker sending the caller back to the sleep.
Stat_KeepsPolling(p) ==
  /\ pc[p] = "stat"
  /\ IF lockFile.exists /\ IsStale(now - lockFile.mtime)
     THEN /\ Goto(p, "unlink")
          /\ seen' = Set(seen, p, lockFile.owner)
          /\ overtaken' = Set(overtaken, p, FALSE)
          /\ UNCHANGED localVars
     ELSE /\ Goto(p, "acquire")
          /\ UNCHANGED <<localVars, seen, overtaken>>
  /\ UNCHANGED <<now, fileVars, gitVars, ideal>>

\* acquireLock past the deadline: fse.stat(lockFile).  A stale marker is to
\* be unlinked; a fresh one, or a failing stat (the marker is gone), ends
\* in 'Timeout waiting for metadata lock'.
Stat(p) ==
  /\ pc[p] = "stat"
  /\ IF lockFile.exists /\ IsStale(now - lockFile.mtime)
     THEN /\ Goto(p, "unlink")
          /\ seen' = Set(seen, p, lockFile.owner)
          /\ overtaken' = Set(overtaken, p, FALSE)
          /\ UNCHANGED localVars
     ELSE /\ Raise(p, "timeout")
          /\ Forgotten(p, overtaken)
  /\ UNCHANGED <<now, fileVars, gitVars, ideal>>

\* The same without `continue`: the unlink falls through to the throw.
Unlink_NoRetry(p) ==
  /\ pc[p] = "unlink"
  /\ IF lockFile.exists
     THEN /\ lockFile' = NoLock
          /\ Raise(p, "timeout")
          /\ Forgotten(p, Overtake(p))
     ELSE /\ Raise(p, "timeout")
          /\ Forgotten(p, overtaken)
          /\ UNCHANGED lockFile
  /\ UNCHANGED <<now, metadataFile, tempFile, gitVars, ideal>>

\* acquireLock: fse.unlink(lockFile) of the marker judged stale, then
\* `continue`; a failing unlink (the marker is gone) is swallowed and ends
\* in the timeout error.
Unlink(p) ==
  /\ pc[p] = "unlink"
  /\ IF lockFile.exists
     THEN /\ lockFile' = NoLock
          /\ overtaken' = Overtake(p)
          /\ Goto(p, "acquire")
          /\ UNCHANGED <<localVars, seen>>
     ELSE /\ Raise(p, "timeout")
          /\ Forgotten(p, overtaken)
          /\ UNCHANGED lockFile
  /\ UNCHANGED <<now, metadataFile, tempFile, gitVars, ideal>>

\* acquireLock(): the loop from its first fse.open to its return or throw.
AcquireLock(p) == TryLock(p) \/ Stat(p) \/ Unlink(p)

(* ------------------- load, mutate, save, release ---------------------- *)
\* const status = toolResponse.success !== false ? 'success' : 'failed'
StatusOf(resp) == IF resp = "{success:false}" THEN "failed" ELSE "success"

\* The status an update call sets: handlePostToolUse derives it from the
\* payload, a direct caller passes it.
CallStatus(e) == IF e.kind = "post" THEN StatusOf(e.resp) ELSE e.status

\* if (metadata[projectHash] && metadata[projectHash][checkpointHash]):
\* whether updateCheckpointStatus rewrites the document.
UpdateSaves_Always(doc, proj, h) == TRUE
UpdateSaves(doc, proj, h) == HasRecord(doc, proj, h)

\* The try block up to saveMetadata: loadMetadata(), then the change in
\* memory.  addCheckpoint always saves; updateCheckpointStatus saves when
\* the record is there; cleanupOldMetadata returns early for an unknown
\* project and saves when there are more than keepCount records.
\* loadMetadata with its catch left out: unparsable content is thrown on.
LoadThrows_Malformed(file) == file.state = "partial"

\* loadMetadata's try/catch: a read or parse error is logged and the empty
\* document returned, so nothing is thrown to the caller.
LoadThrows(file) == FALSE

Load(p) ==
  /\ pc[p] = "load"
  /\ LET doc == loadMetadata(metadataFile)
         e == ev[p]
     IN CASE LoadThrows(metadataFile) ->
               /\ result' = Set(result, p, "io")
               /\ pc' = Set(pc, p, "release")
               /\ UNCHANGED <<mem, exitCode>>
          [] e.kind \in {"pre", "add"} ->
               /\ mem' = Set(mem, p,
                    AddMutation(doc, e.proj, target[p],
                                NewRecord(now, e.tool, e.file, p)))
               /\ Goto(p, "wopen")
          [] e.kind \in {"post", "update"} ->
               IF UpdateSaves(doc, e.proj, target[p])
               THEN /\ mem' = Set(mem, p,
                         UpdateMutation(doc, e.proj, target[p],
                                        CallStatus(e), now, e.resp))
                    /\ Goto(p, "wopen")
               ELSE /\ mem' = Set(mem, p, doc)
                    /\ Goto(p, "release")
          [] OTHER ->
               IF CleanupSaves(doc, e.proj, e.keep)
               THEN /\ mem' = Set(mem, p, CleanupMutation(doc, e.proj, e.keep))
                    /\ Goto(p, "wopen")
               ELSE /\ mem' = Set(mem, p, doc)
                    /\ Goto(p, "release")
  /\ UNCHANGED <<now, fileVars, gitVars, ev, startTime, target, ghostVars>>

CloseFd(file, p) == [file EXCEPT !.writers = @ \ {p}]

\* saveMetadata: fse.writeJson(tempPath, ...) opens the one shared temporary
\* path for writing, which truncates what is there.
WriteOpen(p) ==
  /\ pc[p] = "wopen"
  /\ tempFile' = [state |-> "partial", doc |-> EmptyDoc,
                  writers |-> tempFile.writers \cup {p}]
  /\ Goto(p, "wwrite")
  /\ UNCHANGED <<now, lockFile, metadataFile, gitVars, localVars, ghostVars>>

\* What a full write of `doc` leaves in an open file: the document, unless
\* another writer has filled the file since this writer truncated it, when
\* the bytes of the two may also mix.
Written(file, p, doc) ==
  IF file.state = "partial"
  THEN {[state |-> "complete", doc |-> doc, writers |-> file.writers \ {p}]}
  ELSE {[state |-> "complete", doc |-> doc, writers |-> file.writers \ {p}],
        [state |-> "partial", doc |-> EmptyDoc, writers |-> file.writers \ {p}]}

\* saveMetadata: writeJson writes the text and closes the file.  The file
\* written is the one opened, wherever a rename has moved it since.
WriteData(p) ==
  /\ pc[p] = "wwrite"
  /\ IF p \in tempFile.writers
     THEN /\ tempFile' \in Written(tempFile, p, mem[p])
          /\ UNCHANGED metadataFile
     ELSE IF p \in metadataFile.writers
     THEN /\ metadataFile' \in Written(metadataFile, p, mem[p])
          /\ UNCHANGED tempFile
     ELSE UNCHANGED <<tempFile, metadataFile>>
  /\ Goto(p, "rename")
  /\ UNCHANGED <<now, lockFile, gitVars, localVars, ghostVars>>

\* The document after this call's change, had every save run alone.
Serial(doc, p) ==
  LET e == ev[p]
      h == target[p]
  IN CASE e.kind \in {"pre", "add"} ->
            AddMutation(doc, e.proj, h, RecordOf(mem[p], e.proj, h))
       [] e.kind \in {"post", "update"} ->
            UpdateMutation(doc, e.proj, h, CallStatus(e),
                           IF HasRecord(mem[p], e.proj, h)
                           THEN RecordOf(mem[p], e.proj, h).status_updated
                           ELSE now,
                           e.resp)
       [] OTHER ->
            IF e.proj \in DOMAIN doc
            THEN CleanupMutation(doc, e.proj, e.keep)
            ELSE doc

\* saveMetadata: fse.rename(tempPath, metadataFile) moves whatever is at the
\* temporary path into place; with nothing there it throws, and the finally
\* block releases the lock.
Rename(p) ==
  /\ pc[p] = "rename"
  /\ IF tempFile.state # "absent"
     THEN /\ metadataFile' = tempFile
          /\ tempFile' = NoFile
          /\ ideal' = Serial(ideal, p)
          /\ UNCHANGED result
     ELSE /\ result' = Set(result, p, "io")
          /\ UNCHANGED <<metadataFile, tempFile, ideal>>
  /\ pc' = Set(pc, p, "release")
  /\ UNCHANGED <<now, lockFile, gitVars, localVars, exitCode, seen, overtaken>>

\* The same without try/finally: the exception leaves the call at once.
SaveError_NoFinally(p) ==
  /\ pc[p] \in {"wopen", "wwrite", "rename"}
  /\ tempFile' = CloseFd(tempFile, p)
  /\ metadataFile' = CloseFd(metadataFile, p)
  /\ Raise(p, "io")
  /\ Forgotten(p, overtaken)
  /\ UNCHANGED <<now, lockFile, gitVars, ideal>>

\* An I/O error thrown inside saveMetadata (no space, no permission): the
\* exception passes through the finally block, which releases the lock.
SaveError(p) ==
  /\ pc[p] \in {"wopen", "wwrite", "rename"}
  /\ tempFile' = CloseFd(tempFile, p)
  /\ metadataFile' = CloseFd(metadataFile, p)
  /\ result' = Set(result, p, "io")
  /\ pc' = Set(pc, p, "release")
  /\ UNCHANGED <<now, lockFile, gitVars, localVars, exitCode, ghostVars>>

\* finally { await this.releaseLock() }: fse.unlink(lockFile), errors
\* swallowed; then the call returns (and the handler returns 0), or the
\* pending exception goes on to main()'s catch.
ReleaseLock(p) ==
  /\ pc[p] = "release"
  /\ lockFile' = NoLock
  /\ Forgotten(p, IF lockFile.exists THEN Overtake(p) ELSE overtaken)
  /\ IF result[p] = "none" THEN Return(p, "ok") ELSE Raise(p, result[p])
  /\ UNCHANGED <<now, metadataFile, tempFile, gitVars, ideal>>

\* The process is killed (SIGKILL, power loss) at any await: nothing of it
\* runs again, its memory is gone and its open file is closed as it is.
Kill(p) ==
  /\ pc[p] \notin {"idle", "done", "dead"}
  /\ pc' = Set(pc, p, "dead")
  /\ tempFile' = CloseFd(tempFile, p)
  /\ metadataFile' = CloseFd(metadataFile, p)
  /\ ev' = Set(ev, p, NoEvent)
  /\ startTime' = Set(startTime, p, NoTime)
  /\ target' = Set(target, p, NoHash)
  /\ mem' = Set(mem, p, EmptyDoc)
  /\ result' = Set(result, p, "none")
  /\ Forgotten(p, overtaken)
  /\ UNCHANGED <<now, lockFile, gitVars, exitCode, ideal>>

(* ------------------ the shadow repository in detail ------------------- *)
\* The calls on one GitCheckpointManager, each as a whole: the commands it
\* runs one after another, any of which may fail.  A commit's hash is its
\* number in the order of creation.

\* syncFiles(src, dst): fse.copy with overwrite and the filter.  Every file
\* of src that is not hidden is copied over dst; nothing of dst is removed.
syncFiles(src, dst) ==
  [f \in Files |-> IF ~Hidden(f) /\ src[f] # NoContent THEN src[f] ELSE dst[f]]

\* The files of a tree that syncFiles copies.
Copied(tree) == syncFiles(tree, EmptyTree)

\* The files of a commit; before the first commit there are none.
TreeOf(rp, c) == IF c = NoHash THEN EmptyTree ELSE rp.history[c].tree

\* `git checkout` from commit `from` to commit `to` refuses when a file that
\* differs between the two has uncommitted changes (or is untracked) ...
CheckoutBlocked(rp, from, to) ==
  \E f \in Files : /\ TreeOf(rp, from)[f] # TreeOf(rp, to)[f]
                   /\ rp.files[f] # TreeOf(rp, from)[f]

\* ... and otherwise rewrites the files that differ and keeps the rest,
\* uncommitted changes included.
CheckedOut(rp, from, to) ==
  [f \in Files |-> IF TreeOf(rp, from)[f] # TreeOf(rp, to)[f]
                   THEN TreeOf(rp, to)[f]
                   ELSE rp.files[f]]

\* The commits reachable from commit c.
RECURSIVE Reach(_, _)
Reach(rp, c) ==
  IF c = NoHash THEN {} ELSE {c} \cup Reach(rp, rp.history[c].parent)

\* Text is a sequence of characters; Repeat(c, n) is c written n times.
Repeat(c, n) == [i \in 1..n |-> c]

\* /^[a-f0-9]{1,40}$/i
MaxHashLen == 40
HexChars == {"a", "f", "0", "9", "A", "F"}
validateCheckpointHash_AnyLength(text) ==
  /\ text # <<>>
  /\ \A i \in 1..Len(text) : text[i] \in HexChars

validateCheckpointHash(text) ==
  /\ text # <<>>
  /\ Len(text) \in 1..MaxHashLen
  /\ \A i \in 1..Len(text) : text[i] \in HexChars

\* Hash arguments tried: for each commit number its hash in lower case and
\* in upper case, and texts that are empty, too long or hold a character
\* that is no hexadecimal digit; `names` is the commit git resolves the
\* text to, if there is such a commit.
HashesOfCommits(cases) ==
  {[text |-> Repeat(c, MaxHashLen), names |-> h] :
     c \in cases, h \in 1..MaxCommits}
NoHashes ==
  {[text |-> t, names |-> NoHash] :
     t \in {<<>>, Repeat("a", MaxHashLen + 1), <<"0", ";">>}}
HashArguments == HashesOfCommits({"a", "A"}) \cup NoHashes

\* A message is a sequence of pieces: words, blanks, '[' and the text
\* 'CHECKPOINT:'.  `CHECKPOINT: ${message} [${timestamp}]`
Envelope(m) == <<"CHECKPOINT:", " ">> \o m \o <<" ", "[", "ts", "]">>

\* String.prototype.trim
RECURSIVE Trim(_)
Trim(s) ==
  IF s = <<>> THEN s
  ELSE IF Head(s) = " " THEN Trim(Tail(s))
  ELSE IF s[Len(s)] = " " THEN Trim(SubSeq(s, 1, Len(s) - 1))
  ELSE s

\* message.includes(piece)
Includes(s, piece) == \E i \in 1..Len(s) : s[i] = piece

\* message.indexOf(piece), counted from 1; 0 when there is none.
IndexOf(s, piece) ==
  IF Includes(s, piece)
  THEN CHOOSE i \in 1..Len(s) :
         s[i] = piece /\ \A j \in 1..(i - 1) : s[j] # piece
  ELSE 0

\* message.replace('CHECKPOINT: ', ''): the first occurrence goes.
RemovePrefix(s) ==
  LET at == {i \in 1..(Len(s) - 1) : s[i] = "CHECKPOINT:" /\ s[i + 1] = " "}
  IN IF at = {} THEN s
     ELSE LET i == CHOOSE i \in at : \A j \in at : i <= j
          IN SubSeq(s, 1, i - 1) \o SubSeq(s, i + 2, Len(s))

\* listCheckpoints: the message presented for a commit subject.
PresentedMessage(subject) ==
  LET message == Trim(subject)
  IN IF Includes(message, "CHECKPOINT:")
     THEN LET rest == RemovePrefix(message)
              bracketIndex == IndexOf(rest, "[")
          IN IF bracketIndex # 0
             THEN Trim(SubSeq(rest, 1, bracketIndex - 1))
             ELSE rest
     ELSE message

\* Messages given to createCheckpoint.
Messages == {<<"x">>, <<"x", "[", "y">>, <<"CHECKPOINT:", " ", "x">>}

\* The steps of createCheckpoint and of restoreCheckpoint that can fail.
CreateSteps == {"none", "init", "sync", "add", "commit", "revparse", "note"}
RestoreSteps == {"none", "checkout", "sync"}

\* The record of a call.
CallOf(op, text, dry, hash, ok, engine, failed, list) ==
  [op |-> op, text |-> text, dry |-> dry, hash |-> hash, ok |-> ok,
   engine |-> engine, failed |-> failed, list |-> list]

\* Nothing of the Metadata Store's processes and of the configuration moves
\* in a call on the GitCheckpointManager.
StoreIdle ==
  UNCHANGED <<lockFile, tempFile, projectRepo, pc, localVars, result,
              exitCode, ghostVars, configVars>>

\* A tool or the user writes, changes or deletes a file of the project
\* (one that is not hidden).
EditProject ==
  /\ \E f \in Files, c \in Contents :
       /\ ~Hidden(f)
       /\ projectTree[f] # c
       /\ projectTree' = [projectTree EXCEPT ![f] = c]
  /\ UNCHANGED <<now, metadataFile, shadow, repo, last>>
  /\ StoreIdle

\* `git checkout main` at the end of createCheckpoint and of
\* restoreCheckpoint, its return code not looked at: it takes HEAD (at
\* commit `head`) back to the branch when the branch is called main and no
\* changed file is in the way, and does nothing otherwise.
BackOnMain(rp, head) ==
  IF rp.name = "main" /\ ~CheckoutBlocked(rp, head, rp.tip)
  THEN [head |-> rp.tip,
        rp |-> [rp EXCEPT !.attached = TRUE,
                          !.files = CheckedOut(rp, head, rp.tip)]]
  ELSE [head |-> head, rp |-> rp]

\* initCheckpointRepo(): an existing directory counts as initialized.
\* Otherwise ensureDir or `git init --bare` may fail (false, with or
\* without the directory left behind); else the worktree is cloned or
\* initialized, on the branch git is configured to start on, or that
\* command fails unnoticed and there is no worktree.
initCheckpointRepo(sh, rp, step) ==
  IF sh.state # "absent"
  THEN {[ok |-> TRUE, state |-> sh.state, name |-> rp.name]}
  ELSE IF step = "init"
  THEN {[ok |-> FALSE, state |-> left, name |-> rp.name] :
          left \in {"absent", "broken"}}
  ELSE {[ok |-> TRUE, state |-> "ready", name |-> branch] :
          branch \in {"main", "master"}}
         \cup {[ok |-> TRUE, state |-> "broken", name |-> rp.name]}

\* createCheckpoint(message, metadata) in the shadow repository sh0 with
\* worktree rp0, the project's files being `tree`, when `step` is the step
\* that fails: the outcomes, each with the hash returned (NoHash for null)
\* and the step that did fail.
\*   - syncFiles throws: caught, null; the copy was done or not.
\*   - `git add -A` fails: not looked at; the commit (--allow-empty) then
\*     holds the files of its parent.
\*   - `git commit` fails (always so without a worktree): null.
\*   - `git rev-parse HEAD` fails: null, with the commit made.
\*   - `git notes add` fails: not looked at.
\*   - `git checkout main` fails (see BackOnMain): not looked at.
createCheckpoint(sh0, rp0, tree, m, step) ==
  LET Body(i) ==
        LET sh == [sh0 EXCEPT !.state = i.state]
            rp == [rp0 EXCEPT !.name = i.name]
            synced == [rp EXCEPT !.files = syncFiles(tree, rp.files)]
            n == Len(rp.history) + 1
            commit == [parent |-> sh.head,
                       tree |-> IF step = "add" THEN TreeOf(rp, sh.head)
                                ELSE synced.files,
                       message |-> Envelope(m),
                       given |-> m,
                       note |-> step # "note",
                       source |-> Copied(tree),
                       attached |-> rp.attached]
            made == [synced EXCEPT !.history = Append(@, commit),
                                   !.tip = IF rp.attached THEN n ELSE @]
            committed == [sh EXCEPT !.commits = @ \cup {n}, !.head = n]
            back == BackOnMain(made, n)
            Out(s, r, h, failed) ==
              [sh |-> s, rp |-> r, hash |-> h, failed |-> failed]
        IN IF ~i.ok THEN {Out(sh, rp, NoHash, "init")}
           ELSE IF sh.state = "broken" THEN {Out(sh, rp, NoHash, "commit")}
           ELSE CASE step = "sync" ->
                       {Out(sh, r, NoHash, "sync") : r \in {rp, synced}}
                  [] step = "commit" -> {Out(sh, synced, NoHash, "commit")}
                  [] step = "revparse" ->
                       {Out(committed, made, NoHash, "revparse")}
                  [] OTHER ->
                       {Out([committed EXCEPT !.head = back.head], back.rp, n,
                            IF step = "init" THEN "none" ELSE step)}
  IN UNION {Body(i) : i \in initCheckpointRepo(sh0, rp0, step)}

\* A createCheckpoint call and, when it returns a hash, handlePreToolUse's
\* addCheckpoint of it.
CreateCheckpoint(pr, messages, steps) ==
  /\ Len(repo.history) < MaxCommits
  /\ \E m \in messages, step \in steps :
       \E o \in createCheckpoint(shadow[pr], repo, projectTree, m, step) :
         /\ shadow' = Set(shadow, pr, o.sh)
         /\ repo' = o.rp
         /\ last' = CallOf("create", <<>>, FALSE, o.hash, o.hash # NoHash,
                           TRUE, o.failed, <<>>)
         /\ metadataFile' =
              IF o.hash = NoHash THEN metadataFile
              ELSE [state |-> "complete",
                    doc |-> AddMutation(loadMetadata(metadataFile), pr,
                                        o.hash,
                                        NewRecord(now, "Write", "a.txt", 1)),
                    writers |-> {}]
  /\ UNCHANGED <<now, projectTree>>
  /\ StoreIdle

\* `if (dryRun)` in restoreCheckpoint.
StopsAfterCheckout_Never(dryRun) == FALSE

StopsAfterCheckout(dryRun) == dryRun

\* restoreCheckpoint(checkpointHash, dryRun), with `step` the step that
\* fails.  No shadow directory: false.  A text that is no hash: false.
\* `git checkout <hash>` fails (no such commit, a changed file in the way,
\* no worktree): false.  dryRun: true, HEAD left on the commit.  syncFiles
\* throws: caught, false, HEAD left on the commit.  Else `git checkout
\* main`, its return code not looked at, and true.
RestoreCheckpoint(pr, arguments, dryRuns, steps) ==
  /\ \E arg \in arguments, dryRun \in dryRuns, step \in steps :
       LET sh == shadow[pr]
           c == arg.names
           Result(ok, engine, failed) ==
             CallOf("restore", arg.text, dryRun, c, ok, engine, failed, <<>>)
           at == [repo EXCEPT !.attached = FALSE,
                              !.files = CheckedOut(repo, sh.head, c)]
           back == BackOnMain(at, c)
       IN IF sh.state = "absent" \/ ~validateCheckpointHash(arg.text)
          THEN /\ last' = Result(FALSE, FALSE, "none")
               /\ UNCHANGED <<shadow, repo, projectTree>>
          ELSE IF \/ sh.state # "ready" \/ step = "checkout"
                  \/ c \notin sh.commits
                  \/ CheckoutBlocked(repo, sh.head, c)
          THEN /\ last' = Result(FALSE, TRUE, "checkout")
               /\ UNCHANGED <<shadow, repo, projectTree>>
          ELSE IF StopsAfterCheckout(dryRun)
          THEN /\ last' = Result(TRUE, TRUE, "none")
               /\ repo' = at
               /\ shadow' = Set(shadow, pr, [sh EXCEPT !.head = c])
               /\ UNCHANGED projectTree
          ELSE IF step = "sync"
          THEN /\ last' = Result(FALSE, TRUE, "sync")
               /\ repo' = at
               /\ shadow' = Set(shadow, pr, [sh EXCEPT !.head = c])
               /\ projectTree' \in {projectTree,
                                    syncFiles(at.files, projectTree)}
          ELSE /\ last' = Result(TRUE, TRUE, "none")
               /\ repo' = back.rp
               /\ shadow' = Set(shadow, pr, [sh EXCEPT !.head = back.head])
               /\ projectTree' = syncFiles(at.files, projectTree)
  /\ UNCHANGED <<now, metadataFile>>
  /\ StoreIdle

\* getCheckpointDiff(checkpointHash?): with a shadow directory and a hash
\* that is one (or none), the project's files are copied into the worktree
\* and `git diff --stat` run; nothing is committed or checked out.
GetCheckpointDiff(pr, arguments) ==
  /\ \E arg \in arguments :
       LET sh == shadow[pr]
           Result(ok, engine) ==
             CallOf("diff", <<>>, FALSE, NoHash, ok, engine, "none", <<>>)
       IN IF \/ sh.state = "absent"
             \/ (arg.text # <<>> /\ ~validateCheckpointHash(arg.text))
          THEN /\ last' = Result(FALSE, FALSE)
               /\ UNCHANGED repo
          ELSE IF sh.state # "ready"
          THEN /\ last' = Result(FALSE, TRUE)
               /\ UNCHANGED repo
          ELSE /\ last' = Result(arg.text = <<>> \/ arg.names \in sh.commits,
                                 TRUE)
               /\ repo' = [repo EXCEPT
                             !.files = syncFiles(projectTree, repo.files)]
  /\ UNCHANGED <<now, metadataFile, shadow, projectTree>>
  /\ StoreIdle

\* `git rev-parse <hash>` in the worktree, given the 40 characters that an
\* earlier `git rev-parse HEAD` printed: git prints a full hash back and
\* returns 0 without looking for the object.
RevParseSucceeds(sh, h) == sh.state = "ready"

\* `git log -1 --pretty=format:%s <hash>`: the subject of the commit, when
\* the commit is there.
LogSucceeds(sh, h) == sh.state = "ready" /\ h \in sh.commits

\* listCheckpoints' loop over the Metadata Store's records, newest first: a
\* record is kept when rev-parse returns 0, with the commit's message
\* cleaned up, or 'Unknown' when the message cannot be read.
RECURSIVE Verified(_, _, _)
Verified(sh, rp, projectCheckpoints) ==
  IF projectCheckpoints = <<>> THEN <<>>
  ELSE LET cp == Head(projectCheckpoints)
           rest == Verified(sh, rp, Tail(projectCheckpoints))
       IN IF RevParseSucceeds(sh, cp.hash)
          THEN <<[hash |-> cp.hash,
                  timestamp |-> cp.rec.timestamp,
                  message |-> IF LogSucceeds(sh, cp.hash)
                              THEN PresentedMessage(
                                     rp.history[cp.hash].message)
                              ELSE <<"Unknown">>]>> \o rest
          ELSE rest

\* listCheckpoints(): [] without a shadow directory.
listCheckpoints(sh, rp, doc, pr) ==
  IF sh.state = "absent" THEN <<>>
  ELSE Verified(sh, rp, listProjectCheckpoints(doc, pr))

ListCheckpoints(pr) ==
  /\ last' = CallOf("list", <<>>, FALSE, NoHash, TRUE,
                    shadow[pr].state # "absent", "none",
                    listCheckpoints(shadow[pr], repo,
                                    loadMetadata(metadataFile), pr))
  /\ UNCHANGED <<now, metadataFile, shadow, repo, projectTree>>
  /\ StoreIdle

\* git gc in the worktree's repository: a commit that neither the branch
\* nor HEAD reaches is dropped in time.
Prune(pr) ==
  /\ \E c \in shadow[pr].commits :
       /\ c \notin Reach(repo, repo.tip) \cup Reach(repo, shadow[pr].head)
       /\ shadow' = Set(shadow, pr, [shadow[pr] EXCEPT !.commits = @ \ {c}])
  /\ UNCHANGED <<now, metadataFile, repo, projectTree, last>>
  /\ StoreIdle

(* --------------------------- the configuration ------------------------ *)
\* A path is the sequence of its segments (what split(path.sep) gives), a
\* segment the sequence of its pieces: 'build/x.js' is
\* <<<<"build">>, <<"x", ".js">>>>.  A pattern is written the same way, with
\* the piece "*" for the wildcard; a trailing slash leaves an empty last
\* segment: 'build/' is <<<<"build">>, <<>>>>.
Dir(name) == <<<<name>>, <<>>>>
File(name) == <<<<name>>>>
AnyWith(extension) == <<<<"*", extension>>>>

\* getDefaultConfig()
DefaultPatterns ==
  <<AnyWith(".log"), Dir("node_modules"), File(".env"), Dir("__pycache__"),
    AnyWith(".tmp"), Dir(".git"), Dir("dist"), Dir("build"), Dir("coverage"),
    AnyWith(".swp"), AnyWith(".swo"), File(".DS_Store"), File("Thumbs.db")>>

DefaultMaxFileSizeMb == 100
DefaultRetentionDays == 7

getDefaultConfig ==
  [enabled |-> TRUE,
   retention_days |-> DefaultRetentionDays,
   exclude_patterns |-> DefaultPatterns,
   max_file_size_mb |-> DefaultMaxFileSizeMb,
   checkpoint_on_stop |-> FALSE,
   auto_cleanup |-> TRUE]

\* { ...a, ...b } with the members the other way round: a's win.
Spread_FirstWins(a, b) ==
  [k \in DOMAIN a \cup DOMAIN b |-> IF k \in DOMAIN a THEN a[k] ELSE b[k]]

\* { ...a, ...b }: the members of a, overridden and extended by those of b.
Spread(a, b) ==
  [k \in DOMAIN a \cup DOMAIN b |-> IF k \in DOMAIN b THEN b[k] ELSE a[k]]

\* The members that a spread takes from a parsed JSON value: those of an
\* object; null has none.
MembersOf(json) ==
  IF json.kind = "object" THEN json.members ELSE [k \in {} |-> 0]

\* Members a user may write into config.json, and the files tried: every
\* choice of these members, the text `null`, text that is no JSON, a file
\* that cannot be read, and no file.
UserMembers ==
  [enabled |-> FALSE,
   max_file_size_mb |-> 1,
   exclude_patterns |-> <<File("build")>>,
   theme |-> "dark"]

ConfigFiles ==
  {[state |-> "json", kind |-> "object",
    members |-> [k \in keys |-> UserMembers[k]]] :
      keys \in SUBSET DOMAIN UserMembers}
  \cup {[state |-> "json", kind |-> "null", members |-> [k \in {} |-> 0]]}
  \cup {[state |-> st] : st \in {"missing", "unreadable", "invalid"}}

\* Whether the try block of loadConfig throws: readFileSync on a file that
\* cannot be read, JSON.parse on text that is no JSON.
LoadFails(file) == file.state \in {"unreadable", "invalid"}

\* loadConfig(): the defaults with the file's members spread over them; the
\* defaults when there is no file or when reading or parsing throws, which
\* the catch logs.
loadConfig(file) ==
  IF LoadFails(file) \/ file.state = "missing"
  THEN [loaded |-> TRUE, value |-> getDefaultConfig, raised |-> FALSE]
  ELSE [loaded |-> TRUE,
        value |-> Spread(getDefaultConfig, MembersOf(file)),
        raised |-> FALSE]

\* new CheckpointConfig(): loadConfig, and with no file saveConfig writes
\* the defaults to config.json, or fails to and logs that.
LoadConfig ==
  /\ config' = loadConfig(configFile)
  /\ configFile' \in
       IF configFile.state = "missing"
       THEN {configFile,
             [state |-> "json", kind |-> "object",
              members |-> getDefaultConfig]}
       ELSE {configFile}
  /\ UNCHANGED <<now, fileVars, projectRepo, shadow, projectTree, repo, last,
                 probe, pc, localVars, result, exitCode, ghostVars>>

\* minimatch on one segment: a pattern segment without wildcard matches
\* the segment equal to it, '*' followed by text every segment that ends
\* with the text (with dot: true also one that starts with a dot).
SegmentMatches(f, p) ==
  IF p # <<>> /\ Head(p) = "*"
  THEN /\ Len(f) >= Len(p) - 1
       /\ SubSeq(f, Len(f) - Len(p) + 2, Len(f)) = Tail(p)
  ELSE f = p

\* minimatch's matchOne for patterns without '**': segment by segment.
\* When the path ends before the pattern there is no match; when the
\* pattern ends first, only if what is left of the path is the empty
\* segment after a trailing slash.
RECURSIVE matchOne(_, _)
matchOne(file, pattern) ==
  IF file = <<>> /\ pattern = <<>> THEN TRUE
  ELSE IF file = <<>> THEN FALSE
  ELSE IF pattern = <<>> THEN Len(file) = 1 /\ Head(file) = <<>>
  ELSE /\ SegmentMatches(Head(file), Head(pattern))
       /\ matchOne(Tail(file), Tail(pattern))

\* minimatch(path, pattern, { dot: true })
minimatch(path, pattern) == matchOne(path, pattern)

\* process.cwd(), and path.relative(from, to) for absolute paths.
Cwd == <<<<"home">>, <<"proj">>>>
RECURSIVE CommonPrefix(_, _)
CommonPrefix(a, b) ==
  IF a = <<>> \/ b = <<>> \/ Head(a) # Head(b) THEN 0
  ELSE 1 + CommonPrefix(Tail(a), Tail(b))
Relative(from, to) ==
  LET n == CommonPrefix(from, to)
  IN [i \in 1..(Len(from) - n) |-> <<"..">>] \o SubSeq(to, n + 1, Len(to))

\* The body of the loop over the patterns: the path, or the path up to one
\* of its segments, matches the pattern.
MatchesPattern(relativePath, pattern) ==
  \/ minimatch(relativePath, pattern)
  \/ \E i \in 1..Len(relativePath) :
       minimatch(SubSeq(relativePath, 1, i), pattern)

\* stats.size > this.maxFileSizeMb * 1024 * 1024, inside try/catch: a file
\* that is not there or whose stat throws is not too large.
BytesPerMb == 1024 * 1024
TooLarge(cfg, file) ==
  /\ file.exists
  /\ ~file.statThrows
  /\ file.size > cfg.max_file_size_mb * BytesPerMb

\* shouldExcludeFile(filePath): filePath is [absolute, segments].
shouldExcludeFile(cfg, filePath, file) ==
  LET relativePath == IF filePath.absolute
                      THEN Relative(Cwd, filePath.segments)
                      ELSE filePath.segments
  IN \/ \E i \in 1..Len(cfg.exclude_patterns) :
          MatchesPattern(relativePath, cfg.exclude_patterns[i])
     \/ TooLarge(cfg, file)

\* The paths asked about ...
InCwd(segments) == [absolute |-> FALSE, segments |-> segments]
Absolute(segments) == [absolute |-> TRUE, segments |-> segments]
ProbePaths ==
  {InCwd(<<<<"build">>, <<"x", ".js">>>>),
   InCwd(<<<<"x", ".log">>>>),
   InCwd(<<<<".env">>>>),
   InCwd(<<<<"src">>, <<"app", ".ts">>>>),
   InCwd(<<<<"src">>, <<"x", ".log">>>>),
   Absolute(Cwd \o <<<<"x", ".log">>>>),
   Absolute(<<<<"home">>, <<"other">>, <<"app", ".ts">>>>)}

\* ... and what is at the path: nothing, a file of a size (in bytes) at or
\* just above a limit, or a file whose stat throws.
ProbeFiles ==
  {[exists |-> FALSE, statThrows |-> FALSE, size |-> 0],
   [exists |-> TRUE, statThrows |-> TRUE, size |-> 0]}
  \cup {[exists |-> TRUE, statThrows |-> FALSE, size |-> mb * BytesPerMb + d] :
          mb \in {UserMembers.max_file_size_mb, DefaultMaxFileSizeMb},
          d \in {0, 1}}

\* A shouldExcludeFile call on the CheckpointConfig constructed.
ShouldExcludeFile ==
  /\ config.loaded
  /\ \E filePath \in ProbePaths, file \in ProbeFiles :
       probe' = [path |-> filePath, file |-> file,
                 excluded |-> shouldExcludeFile(config.value, filePath, file)]
  /\ UNCHANGED <<now, fileVars, projectRepo, shadow, projectTree, repo, last,
                 configFile, config, pc, localVars, result, exitCode,
                 ghostVars>>

(* ------------------------------ properties ---------------------------- *)
\* The document a reader finds at the metadata path.
persisted == loadMetadata(metadataFile)

\* C1: when every call issued so far has returned without a lock timeout
\* (and none failed or was killed), the persisted document holds the effect
\* of all of them: it is the document the calls give run one after the
\* other, in the order of their saves.
C1_NoLostUpdate ==
  (\A p \in Procs : pc[p] \in {"idle", "done"} /\ result[p] \in {"none", "ok"})
    => persisted = ideal

\* C2: at most one process at a time is between a successful acquireLock
\* and the end of its releaseLock.
C2_MutualExclusion ==
  \A p, q \in Procs : p # q => ~(InCritical(p) /\ InCritical(q))

C4_OnlyStaleDeleted ==
  [][\A p \in Procs :
       (pc[p] = "unlink" /\ pc'[p] = "acquire")
         => /\ now - startTime[p] > maxWaitTime
            /\ lockFile.exists
            /\ now - lockFile.mtime > staleThreshold]_vars

\* C5: a call that has returned, in whatever way, has left no marker of its
\* own behind.
C5_ReleasedOnReturn ==
  \A p \in Procs :
    pc[p] = "done" => ~(lockFile.exists /\ lockFile.owner = p)

\* C5 witness: a call whose save threw has returned and the marker is gone.
C5_Witness ==
  \E p \in Procs :
    pc[p] = "done" /\ result[p] = "io" /\ ~lockFile.exists

\* C6: a caller that has judged no marker stale changes neither the marker
\* nor the documents while the marker exists, and when its stat past the
\* deadline finds the marker younger than the threshold it ends in the
\* lock-timeout error.
C6_FreshMarkerTimeout ==
  [][\A p \in Procs :
       (/\ pc[p] \in {"acquire", "stat"}
        /\ seen[p] = NoProc
        /\ lockFile.exists
        /\ pc'[p] # pc[p]
        /\ pc'[p] # "dead")
         => /\ UNCHANGED fileVars
            /\ (pc[p] = "stat" /\ now - lockFile.mtime <= staleThreshold)
                 => (pc'[p] = "done" /\ result'[p] = "timeout")]_vars

\* C6 witness: a call has ended in the lock-timeout error while another
\* process holds a marker younger than the threshold.
C6_Witness ==
  \E p \in Procs :
    /\ pc[p] = "done" /\ result[p] = "timeout"
    /\ lockFile.exists /\ lockFile.owner # p
    /\ InCritical(lockFile.owner)
    /\ now - lockFile.mtime <= staleThreshold

\* C7: what is at the metadata path is absent or a document written in
\* full.
C7_NeverPartial == metadataFile.state # "partial"

\* C8: every record at the metadata path is keyed by a commit that was
\* created in its project's shadow repository.
C8_RecordOnlyIfCommit ==
  \A pr \in DOMAIN persisted :
    Keys(persisted[pr]) \subseteq shadow[pr].commits

\* C8 witness: one commit has a record and another commit has none.
C8_Witness ==
  \E pr \in DOMAIN persisted :
    /\ Keys(persisted[pr]) # {}
    /\ shadow[pr].commits \ Keys(persisted[pr]) # {}

\* C9: a record whose status is success or failed keeps that status.
C9_TerminalStatusStays ==
  [][\A pr \in Projects, h \in Procs :
       (/\ HasRecord(persisted, pr, h)
        /\ RecordOf(persisted, pr, h).status \in {"success", "failed"}
        /\ HasRecord(persisted', pr, h))
         => RecordOf(persisted', pr, h).status
              = RecordOf(persisted, pr, h).status]_vars

\* C10: a hook invocation given a well-formed event exits with status 0.
C10_NonZeroOnlyMalformed ==
  \A p \in Procs :
    (pc[p] = "done" /\ ev[p].wellFormed) => exitCode[p] = 0


\* C11: when createCheckpoint returns null the before-mutation handler
\* returns 0 without a Metadata Store call: marker, document and temporary
\* file are as they were.
C11_NoCheckpointNoRecord ==
  [][\A p \in Procs :
       (pc[p] \in {"initShadow", "commit", "revparse"} /\ pc'[p] = "done")
         => /\ exitCode'[p] = 0
            /\ result'[p] = "none"
            /\ UNCHANGED fileVars]_vars

\* C11 witness: the first invocation has initialized the shadow repository,
\* failed to create the checkpoint and returned 0; the store is empty.
C11_Witness ==
  \E p \in Procs :
    /\ pc[p] = "done" /\ exitCode[p] = 0 /\ result[p] = "none"
    /\ \A q \in Procs \ {p} : pc[q] = "idle"
    /\ \E pr \in Projects : shadow[pr].state = "ready"
    /\ persisted = EmptyDoc /\ ~lockFile.exists

\* C12: whatever becomes of initializing the project repository, the
\* before-mutation handler goes on to the shadow repository.
C12_InitFailureGoesOn ==
  [][\A p \in Procs :
       (pc[p] = "initProject" /\ pc'[p] \notin {"initProject", "dead"})
         => pc'[p] = "initShadow"]_vars

\* C13: a before-mutation event is answered with 0 and nothing is changed
\* (no repository, no commit, no record, no marker) when the configuration
\* is disabled, the tool is none of Write, Edit, MultiEdit, Manual, or the
\* event's file_path is excluded.
C13_SkippedEventIsNoOp ==
  [][\A p \in Procs :
       (/\ pc[p] = "main"
        /\ ev[p].wellFormed /\ ev[p].kind = "pre"
        /\ \/ ~ev[p].enabled
           \/ ev[p].tool \notin {"Write", "Edit", "MultiEdit", "Manual"}
           \/ (ev[p].file # "" /\ ev[p].excluded)
        /\ pc'[p] \notin {"main", "dead"})
         => /\ pc'[p] = "done"
            /\ exitCode'[p] = 0
            /\ UNCHANGED <<fileVars, gitVars>>]_vars

\* C13 witness: a before-mutation event has been skipped by the handler and
\* there is no repository, no record and no marker.
C13_Witness ==
  \E p \in Procs :
    /\ pc[p] = "done" /\ result[p] = "preSkipped" /\ exitCode[p] = 0
    /\ \A pr \in Projects : ~projectRepo[pr] /\ shadow[pr].state = "absent"
    /\ persisted = EmptyDoc /\ ~lockFile.exists

\* C14: a before-mutation invocation that meets no failure makes exactly
\* one new commit, saves exactly one new record, keyed by that commit and
\* pending, leaves every other record as it was, and returns 0.
C14_OneCommitOneRecord ==
  [][\A p \in Procs :
       (ev[p].kind = "pre" /\ pc'[p] # "dead")
         => LET pr == ev[p].proj
                h == target[p]
                old == IF pr \in DOMAIN persisted THEN persisted[pr] ELSE <<>>
            IN /\ (pc[p] = "commit" /\ pc'[p] = "revparse")
                    => /\ shadow[pr].commits \subseteq shadow'[pr].commits
                       /\ Cardinality(shadow'[pr].commits
                                        \ shadow[pr].commits) = 1
               /\ (pc[p] = "rename" /\ metadataFile' # metadataFile)
                    => /\ h = shadow[pr].head /\ h \in shadow[pr].commits
                       /\ h \notin Keys(old)
                       /\ pr \in DOMAIN persisted'
                       /\ Keys(persisted'[pr]) = Keys(old) \cup {h}
                       /\ RecordOf(persisted', pr, h).status = "pending"
                       /\ \A g \in Keys(old) :
                            RecordOf(persisted', pr, g)
                              = RecordOf(persisted, pr, g)
               /\ (pc[p] = "release" /\ result[p] = "none"
                     /\ pc'[p] = "done")
                    => /\ exitCode'[p] = 0
                       /\ HasRecord(persisted', pr, h)
                       /\ RecordOf(persisted', pr, h).status = "pending"]_vars

\* C14 witness: an invocation has returned 0, the shadow repository holds
\* its commit and nothing else, and the commit's record is pending.
C14_Witness ==
  \E p \in Procs, pr \in Projects :
    /\ pc[p] = "done" /\ result[p] = "ok" /\ exitCode[p] = 0
    /\ shadow[pr].commits = {p}
    /\ HasRecord(persisted, pr, p)
    /\ RecordOf(persisted, pr, p).status = "pending"

\* C15: an after-mutation invocation picks a record with the greatest
\* timestamp; its save sets that record's status from the payload's
\* `success`, sets status_updated, stores the payload and leaves everything
\* else as it was; with no record it returns 0 and changes nothing.
C15_UpdatesNewestOnly ==
  [][\A p \in Procs :
       (ev[p].kind = "post" /\ pc'[p] # "dead")
         => LET pr == ev[p].proj
                h == target[p]
            IN /\ (pc[p] = "list" /\ pc'[p] # "list")
                    => IF pr \in DOMAIN persisted /\ persisted[pr] # <<>>
                       THEN /\ pc'[p] = "acquire"
                            /\ HasRecord(persisted, pr, target'[p])
                            /\ \A g \in Keys(persisted[pr]) :
                                 RecordOf(persisted, pr, target'[p]).timestamp
                                   >= RecordOf(persisted, pr, g).timestamp
                       ELSE /\ pc'[p] = "done" /\ exitCode'[p] = 0
                            /\ UNCHANGED fileVars
               /\ (pc[p] = "rename" /\ metadataFile' # metadataFile)
                    => /\ DOMAIN persisted' = DOMAIN persisted
                       /\ Keys(persisted'[pr]) = Keys(persisted[pr])
                       /\ \A g \in Keys(persisted[pr]) \ {h} :
                            RecordOf(persisted', pr, g)
                              = RecordOf(persisted, pr, g)
                       /\ RecordOf(persisted', pr, h)
                            = [RecordOf(persisted, pr, h) EXCEPT
                                 !.status = IF ev[p].resp = "{success:false}"
                                            THEN "failed" ELSE "success",
                                 !.status_updated =
                                    RecordOf(persisted', pr, h).status_updated,
                                 !.tool_response = ev[p].resp]
                       /\ RecordOf(persisted', pr, h).status_updated
                            \in 0..now
               /\ (pc[p] = "release" /\ result[p] = "none"
                     /\ pc'[p] = "done")
                    => exitCode'[p] = 0]_vars

\* C15 witness: of two records the newer one has been given a terminal
\* status and the older one is still pending.
C15_Witness ==
  \E pr \in DOMAIN persisted, g, h \in Procs :
    /\ HasRecord(persisted, pr, g) /\ HasRecord(persisted, pr, h)
    /\ RecordOf(persisted, pr, g).timestamp
         < RecordOf(persisted, pr, h).timestamp
    /\ RecordOf(persisted, pr, g).status = "pending"
    /\ RecordOf(persisted, pr, h).status = "failed"
    /\ RecordOf(persisted, pr, h).tool_response = "{success:false}"

\* C16: the after-mutation handler goes on with every tool kind for which
\* the before-mutation handler records a checkpoint.
C16_PostCoversPreKinds ==
  [][\A p \in Procs :
       (/\ pc[p] = "main"
        /\ ev[p].wellFormed /\ ev[p].kind = "post" /\ ev[p].enabled
        /\ ev[p].tool \in PreTools
        /\ pc'[p] \notin {"main", "dead"})
         => pc'[p] = "list"]_vars

\* C17: when addCheckpoint returns, getCheckpointMetadata with the same
\* project and hash gives a pending record with the call's tool_name,
\* tool_input and session_id, without status_updated and tool_response,
\* whether or not the hash had a record before.
C17_AddThenGet ==
  [][\A p \in Procs :
       (/\ ev[p].kind = "add"
        /\ pc[p] = "release" /\ result[p] = "none" /\ pc'[p] = "done")
         => LET r == getCheckpointMetadata(persisted', ev[p].proj, target[p])
            IN /\ r # NullRecord
               /\ r.status = "pending"
               /\ r.tool_name = ev[p].tool
               /\ r.tool_input = ev[p].file
               /\ r.session_id = p
               /\ r.status_updated = NoTime
               /\ r.tool_response = NoResponse]_vars

\* C17 witness: a call has added the hash of an earlier call and returned;
\* the record is pending and carries the later call's session.
C17_Witness ==
  \E pr \in DOMAIN persisted, p \in Procs, h \in Procs :
    /\ h < p /\ pc[p] = "done" /\ result[p] = "ok"
    /\ HasRecord(persisted, pr, h)
    /\ RecordOf(persisted, pr, h).session_id = p
    /\ RecordOf(persisted, pr, h).status = "pending"

\* C18: updateCheckpointStatus on an existing record saves, and the saved
\* record has the status passed, status_updated set and the payload passed
\* as tool_response (the old one when none is passed), with timestamp,
\* tool_name, tool_input, session_id and files_affected as before; the call
\* then returns.  A save that fails with an I/O error makes the call throw
\* and is outside the statement.
C18_UpdateThenGet ==
  [][\A p \in Procs :
       (/\ ev[p].kind = "update"
        /\ HasRecord(persisted, ev[p].proj, target[p])
        /\ pc'[p] \notin {pc[p], "dead"})
         => LET old == RecordOf(persisted, ev[p].proj, target[p])
                r == getCheckpointMetadata(persisted', ev[p].proj, target[p])
            IN /\ (pc[p] = "load") => (pc'[p] = "wopen")
               /\ (pc[p] = "rename" /\ pc'[p] = "release" /\ result'[p] = "none")
                    => /\ r # NullRecord
                       /\ r.status = ev[p].status
                       /\ r.status_updated \in 0..now
                       /\ r.tool_response = IF ev[p].resp # NoResponse
                                            THEN ev[p].resp
                                            ELSE old.tool_response
                       /\ r.timestamp = old.timestamp
                       /\ r.tool_name = old.tool_name
                       /\ r.tool_input = old.tool_input
                       /\ r.session_id = old.session_id
                       /\ r.files_affected = old.files_affected
               /\ (pc[p] = "release" /\ result[p] = "none")
                    => (pc'[p] = "done" /\ result'[p] = "ok"
                          /\ persisted' = persisted)]_vars

\* C18 witness: a record carries a status, an update time and a payload
\* that only a direct update can have given it.
C18_Witness ==
  \E pr \in DOMAIN persisted, h \in Procs :
    /\ HasRecord(persisted, pr, h)
    /\ RecordOf(persisted, pr, h).status = "failed"
    /\ RecordOf(persisted, pr, h).tool_response = "{success:true}"
    /\ RecordOf(persisted, pr, h).status_updated >= 0
    /\ \A p \in Procs : pc[p] \in {"idle", "done"}

\* C19: updateCheckpointStatus for a (project, hash) without a record goes
\* from the load straight to the release, writes neither the document nor
\* the temporary file, removes the marker and returns without error.
C19_UpdateMissingIsNoOp ==
  [][\A p \in Procs :
       (/\ ev[p].kind = "update"
        /\ ~HasRecord(persisted, ev[p].proj, target[p])
        /\ InCritical(p)
        /\ pc'[p] \notin {pc[p], "dead"})
         => /\ metadataFile' = metadataFile /\ tempFile' = tempFile
            /\ \/ pc[p] = "load" /\ pc'[p] = "release"
               \/ /\ pc[p] = "release" /\ pc'[p] = "done"
                  /\ result'[p] = "ok" /\ ~lockFile'.exists]_vars

\* C19 witness: an update of a missing record has loaded, skipped the save
\* and reached the finally block; there is still no document.
C19_Witness ==
  \E p \in Procs :
    /\ ev[p].kind = "update" /\ pc[p] = "release" /\ result[p] = "none"
    /\ ~HasRecord(persisted, ev[p].proj, target[p])
    /\ metadataFile.state = "absent" /\ tempFile.state = "absent"

\* C20: cleanupOldMetadata(project, N) on k records leaves min(N, k) of
\* them, unchanged, and none of those dropped is newer than one kept; with
\* k <= N it saves nothing.  A save that fails with an I/O error makes the
\* call throw and is outside the statement.
C20_KeepsNewest ==
  [][\A p \in Procs :
       (ev[p].kind = "cleanup" /\ pc'[p] \notin {pc[p], "dead"})
         => LET pr == ev[p].proj
                N == ev[p].keep
                old == IF pr \in DOMAIN persisted THEN persisted[pr] ELSE <<>>
                k == Len(old)
            IN /\ (pc[p] = "load" /\ pc'[p] = "release") => k <= N
               /\ (pc[p] = "load" /\ pc'[p] = "wopen") => k > N
               /\ (pc[p] = "rename" /\ pc'[p] = "release" /\ result'[p] = "none")
                    => LET new == persisted'[pr]
                       IN /\ Len(new) = (IF N < k THEN N ELSE k)
                          /\ Cardinality(Keys(new)) = Len(new)
                          /\ Keys(new) \subseteq Keys(old)
                          /\ \A g \in Keys(new) :
                               RecordOf(persisted', pr, g)
                                 = RecordOf(persisted, pr, g)
                          /\ \A g \in Keys(new), d \in Keys(old) \ Keys(new) :
                               RecordOf(persisted, pr, g).timestamp
                                 >= RecordOf(persisted, pr, d).timestamp
               /\ (pc[p] = "release" /\ result[p] = "none")
                    => (pc'[p] = "done" /\ result'[p] = "ok")]_vars

\* C20 witness: a cleanup with keepCount 1 is about to return and of the
\* records of two earlier calls the later one is there.
C20_Witness ==
  \E pr \in DOMAIN persisted, p \in Procs :
    /\ ev[p].kind = "cleanup" /\ ev[p].keep = 1
    /\ pc[p] = "release" /\ result[p] = "none"
    /\ \A q \in Procs \ {p} : pc[q] = "done" /\ result[q] = "ok"
    /\ Keys(persisted[pr]) = {2}
    /\ RecordOf(persisted, pr, 2).timestamp > 0
    /\ ideal = persisted

\* The checks of C21 on a listing l of the entries of project pr: every
\* record once, each with its hash and its fields.
ListsEveryRecordOnce(l, pr) ==
  /\ Len(l) = Len(persisted[pr])
  /\ {l[i].hash : i \in 1..Len(l)} = Keys(persisted[pr])
  /\ \A i \in 1..Len(l) : l[i].rec = RecordOf(persisted, pr, l[i].hash)

\* C21 as stated: listProjectCheckpoints returns every record of the
\* project exactly once with its hash, and of two consecutive results the
\* earlier one has the later timestamp.
C21_StrictlyDescending ==
  \A pr \in DOMAIN persisted :
    LET l == listProjectCheckpoints(persisted, pr)
    IN /\ ListsEveryRecordOnce(l, pr)
       /\ \A i \in 1..(Len(l) - 1) :
            l[i].rec.timestamp > l[i + 1].rec.timestamp

\* C21 amended: listProjectCheckpoints returns every record of the project
\* exactly once with its hash, and of two consecutive results the later one
\* never has the later timestamp (records of the same millisecond follow
\* one another).
C21_NewestFirst ==
  \A pr \in DOMAIN persisted :
    LET l == listProjectCheckpoints(persisted, pr)
    IN /\ ListsEveryRecordOnce(l, pr)
       /\ \A i \in 1..(Len(l) - 1) :
            l[i].rec.timestamp >= l[i + 1].rec.timestamp

\* C21 witness: the document holds an older record before a newer one, and
\* the listing has them the other way round.
C21_Witness ==
  \E pr \in DOMAIN persisted :
    /\ Len(persisted[pr]) = 2
    /\ persisted[pr][1].rec.timestamp < persisted[pr][2].rec.timestamp
    /\ listProjectCheckpoints(persisted, pr)[1].hash = persisted[pr][2].hash

C27_InitTruthful ==
  [][\A p \in Procs :
       (pc[p] = "initShadow" /\ pc'[p] = "commit")
         => /\ shadow'[ev[p].proj].state = "ready"
            /\ (shadow[ev[p].proj].state = "ready") => (shadow' = shadow)]_vars

\* The hashes of a list of records or of listed checkpoints, in order.
HashesOf(l) == [i \in 1..Len(l) |-> l[i].hash]

\* The records of l whose hash names a commit that the shadow history sh
\* still holds.
RECURSIVE Resolvable(_, _)
Resolvable(sh, l) ==
  IF l = <<>> THEN <<>>
  ELSE IF sh.state = "ready" /\ Head(l).hash \in sh.commits
  THEN <<Head(l)>> \o Resolvable(sh, Tail(l))
  ELSE Resolvable(sh, Tail(l))

\* C22: a call of listCheckpoints returns, newest first, exactly the
\* records of the project in the Metadata Store whose hash names a commit
\* that the shadow history still holds: no record whose commit is gone,
\* every record whose commit is there; and the empty list when there is no
\* shadow repository.
C22_ListsResolvable ==
  [][(last' # last /\ last'.op = "list")
       => \A pr \in Projects :
            /\ HashesOf(last'.list) =
                 HashesOf(Resolvable(shadow[pr],
                                     listProjectCheckpoints(persisted, pr)))
            /\ (shadow[pr].state = "absent") => (last'.list = <<>>)]_vars

\* C30: the message of every checkpoint commit is the message given in the
\* envelope 'CHECKPOINT: m [timestamp]', and the message that listCheckpoints
\* presents for a checkpoint whose commit it can read is the message given,
\* whatever pieces it holds.
C30_EnvelopeRoundTrip ==
  /\ \A c \in 1..Len(repo.history) :
       repo.history[c].message = Envelope(repo.history[c].given)
  /\ (last.op = "list")
       => \A i \in 1..Len(last.list) :
            (last.list[i].message # <<"Unknown">>)
              => last.list[i].message = repo.history[last.list[i].hash].given

\* A restoreCheckpoint call has just returned, given a hash text that is
\* empty, longer than 40 characters or holds a character outside `chars`.
RestoreOfNoHash(chars) ==
  /\ last' # last
  /\ last'.op = "restore"
  /\ \/ last'.text = <<>>
     \/ Len(last'.text) > MaxHashLen
     \/ \E i \in 1..Len(last'.text) : last'.text[i] \notin chars

\* What such a call does: it returns false, runs no git command and leaves
\* the shadow repository, its worktree and the project as they are.
RejectedUntouched ==
  /\ ~last'.ok
  /\ ~last'.engine
  /\ UNCHANGED <<shadow, repo, projectTree>>

\* C23 as stated: restoreCheckpoint returns false, without running git and
\* without changing the shadow worktree or the project, for every hash text
\* that is empty, holds a character outside a-f and 0-9, or is longer than
\* 40 characters.
C23_RejectsOutsideLowerHex ==
  [][RestoreOfNoHash({"a", "f", "0", "9"}) => RejectedUntouched]_vars

\* C23 amended: the same for every hash text that is empty, holds a
\* character that is no hexadecimal digit of either case (outside a-f, A-F
\* and 0-9), or is longer than 40 characters.
C23_RejectsOutsideHex ==
  [][RestoreOfNoHash({"a", "f", "0", "9", "A", "F"}) => RejectedUntouched]_vars

\* C23 witness: with a shadow repository that holds a commit, a
\* restoreCheckpoint given a hash text with a character that is no
\* hexadecimal digit has returned false without running git.
C23_Witness ==
  /\ last.op = "restore"
  /\ last.text = <<"0", ";">>
  /\ ~last.ok /\ ~last.engine
  /\ \E pr \in Projects :
       shadow[pr].state = "ready" /\ shadow[pr].commits # {}

\* A restoreCheckpoint call has just returned true; dryRun as given.
Restored(dryRun) ==
  /\ last' # last
  /\ last'.op = "restore"
  /\ last'.dry = dryRun
  /\ last'.ok

\* C24: when createCheckpoint has returned hash H with the project's files
\* being T, and the project was changed and other checkpoints were made
\* since, a restoreCheckpoint(H) that returns true leaves the project with
\* exactly the files of T that are not excluded, each with the content it
\* had at creation: none is missing, none is different and there is no
\* other file that is not excluded.
C24_RoundTrip ==
  [][\A pr \in Projects :
       (Restored(FALSE) /\ HasRecord(persisted, pr, last'.hash))
         => \A f \in Files :
              ~Hidden(f) => projectTree'[f] = repo.history[last'.hash].source[f]]_vars

\* C25: a restoreCheckpoint with dryRun that returns true has checked the
\* commit out in the worktree and done nothing else: the project's files,
\* the commits and the branch of the shadow history, and the Metadata Store
\* are as before the call.
C25_DryRunChangesNothing ==
  [][Restored(TRUE)
       => /\ UNCHANGED <<projectTree, metadataFile>>
          /\ repo'.history = repo.history
          /\ repo'.tip = repo.tip
          /\ repo'.name = repo.name
          /\ \A pr \in Projects :
               /\ shadow'[pr].commits = shadow[pr].commits
               /\ shadow'[pr].state = shadow[pr].state
               /\ shadow'[pr].head = last'.hash]_vars

\* C25 witness: a dry run has returned true for a commit one of whose files
\* the project holds with another content, so that a restore would have
\* changed the project.
C25_Witness ==
  /\ last.op = "restore" /\ last.dry /\ last.ok
  /\ ~repo.attached
  /\ \E f \in Files :
       /\ ~Hidden(f)
       /\ repo.history[last.hash].tree[f] # NoContent
       /\ repo.history[last.hash].tree[f] # projectTree[f]

\* C26: every checkpoint commit was made with the worktree on its primary
\* branch and has the checkpoint commit made before it as its parent (the
\* first has none), whatever createCheckpoint, restoreCheckpoint and
\* getCheckpointDiff calls came before, failed ones included.
C26_LinearChain ==
  \A c \in 1..Len(repo.history) :
    /\ repo.history[c].attached
    /\ repo.history[c].parent = IF c = 1 THEN NoHash ELSE c - 1

\* C28: createCheckpoint returns a hash only when no step has failed, the
\* staging and the annotation included, and the commit of a hash returned
\* exists and carries the note.
C28_HashOnlyIfEveryStep ==
  (last.op = "create")
    => /\ (last.failed # "none") => (last.hash = NoHash /\ ~last.ok)
       /\ (last.hash # NoHash)
            => /\ last.hash \in 1..Len(repo.history)
               /\ repo.history[last.hash].note

\* The keys that config.json gives: those of the object it holds, when it
\* is there and parses.
FileKeys ==
  IF configFile.state = "json" /\ configFile.kind = "object"
  THEN DOMAIN configFile.members
  ELSE {}

\* C31: a CheckpointConfig that has loaded its configuration holds a value
\* for every key of the defaults and no error has left loadConfig: when
\* config.json is there and parses, each key has the file's value if the
\* file gives the key and the default otherwise (and the file's other keys
\* are there too); when the file is missing, unreadable or no JSON, the
\* configuration is exactly the defaults.
C31_CompleteConfig ==
  config.loaded
    => /\ ~config.raised
       /\ DOMAIN config.value = DOMAIN getDefaultConfig \cup FileKeys
       /\ \A k \in DOMAIN config.value :
            IF k \in FileKeys
            THEN config.value[k] = configFile.members[k]
            ELSE config.value[k] = getDefaultConfig[k]
       /\ (configFile.state # "json") => (config.value = getDefaultConfig)

\* C31 witness: the file gives `enabled` and not `max_file_size_mb`, and
\* the configuration loaded has the file's `enabled` and the default size.
C31_Witness ==
  /\ config.loaded
  /\ configFile.state = "json"
  /\ "enabled" \in FileKeys /\ "max_file_size_mb" \notin FileKeys
  /\ config.value.enabled = UserMembers.enabled
  /\ config.value.enabled # getDefaultConfig.enabled
  /\ config.value.max_file_size_mb = DefaultMaxFileSizeMb

\* C32: the result of a shouldExcludeFile call is true exactly when some
\* exclude pattern matches the path made relative to the working directory
\* or the path up to one of its directories, or the file is there with a
\* size above max_file_size_mb megabytes (a stat that throws counts as not
\* too large); and with the default patterns it is true for build/x.js,
\* x.log and .env, and false for src/app.ts.
C32_ShouldExclude ==
  (config.loaded /\ probe # NoProbe)
    => LET cfg == config.value
           relativePath == IF probe.path.absolute
                           THEN Relative(Cwd, probe.path.segments)
                           ELSE probe.path.segments
           prefixes == {SubSeq(relativePath, 1, i) : i \in 1..Len(relativePath)}
           patterns == {cfg.exclude_patterns[i] :
                          i \in 1..Len(cfg.exclude_patterns)}
           oversized == /\ probe.file.exists /\ ~probe.file.statThrows
                        /\ probe.file.size > cfg.max_file_size_mb * BytesPerMb
       IN /\ probe.excluded
               <=> \/ \E pattern \in patterns, q \in prefixes :
                        minimatch(q, pattern)
                   \/ oversized
          /\ (cfg.exclude_patterns = DefaultPatterns)
               => /\ (probe.path \in {InCwd(<<<<"build">>, <<"x", ".js">>>>),
                                      InCwd(<<<<"x", ".log">>>>),
                                      InCwd(<<<<".env">>>>)})
                       => probe.excluded
                  /\ (probe.path = InCwd(<<<<"src">>, <<"app", ".ts">>>>)
                        /\ ~oversized)
                       => ~probe.excluded

\* C33: when createCheckpoint invocations on one project overlap, each
\* commit step adds one commit to the history, and the hash with which a
\* before-mutation invocation goes on to addCheckpoint is the hash of the
\* commit that this invocation made, so that invocations that overlap record
\* under different hashes and none replaces the record of another.
C33_OwnCommitHash ==
  [][\A p \in Procs :
       (ev[p].kind = "pre" /\ pc'[p] \notin {pc[p], "dead"})
         => LET pr == ev[p].proj
            IN /\ (pc[p] = "commit" /\ pc'[p] = "revparse")
                    => /\ p \notin shadow[pr].commits
                       /\ shadow'[pr].commits = shadow[pr].commits \cup {p}
               /\ (pc[p] = "revparse" /\ pc'[p] = "acquire")
                    => target'[p] = p
               /\ (pc[p] = "rename" /\ pc'[p] = "release"
                     /\ result'[p] = "none")
                    => ~HasRecord(persisted, pr, target[p])]_vars

\* C34: the marker that a releaseLock removes is the marker that the
\* releasing process created; no release removes a marker that another
\* process created and holds.
C34_ReleasesOwnMarker ==
  [][\A p \in Procs :
       (pc[p] = "release" /\ pc'[p] \notin {pc[p], "dead"} /\ lockFile.exists)
         => lockFile.owner = p]_vars

\* The records of entries `old` other than those keyed in `but` are in
\* `new` as they were.
SameRecords(old, new, but) ==
  \A i \in 1..Len(old) :
    old[i].hash \notin but
      => \E j \in 1..Len(new) : new[j] = old[i]

\* C35: the save of addCheckpoint, updateCheckpointStatus or
\* cleanupOldMetadata on project P leaves every record of every other
\* project in the document as it was, and the save of addCheckpoint or
\* updateCheckpointStatus on (P, H) leaves every record of P other than H
\* as it was.
C35_OthersUnchanged ==
  [][\A p \in Procs :
       (/\ ev[p].kind \in {"add", "update", "cleanup"}
        /\ pc[p] = "rename" /\ pc'[p] = "release" /\ result'[p] = "none")
         => LET pr == ev[p].proj
            IN /\ \A q \in DOMAIN persisted \ {pr} :
                    /\ q \in DOMAIN persisted'
                    /\ persisted'[q] = persisted[q]
               /\ (ev[p].kind \in {"add", "update"} /\ pr \in DOMAIN persisted)
                    => /\ pr \in DOMAIN persisted'
                       /\ SameRecords(persisted[pr], persisted'[pr],
                                      {target[p]})]_vars

\* Every record of a document.
RecordsOf(doc) ==
  UNION {{doc[q][i].rec : i \in 1..Len(doc[q])} : q \in DOMAIN doc}

\* C36: every record of the persisted document has status pending, success
\* or failed; it has status_updated exactly when the status is success or
\* failed, and a pending record has no tool_response.
C36_StatusShape ==
  \A r \in RecordsOf(persisted) :
    /\ r.status \in {"pending", "success", "failed"}
    /\ (r.status_updated # NoTime) <=> (r.status \in {"success", "failed"})
    /\ (r.status = "pending") => (r.tool_response = NoResponse)

\* C36 witness: the document holds a pending record without an update
\* time beside a failed one with an update time and a payload, and no
\* call is running.
C36_Witness ==
  \E pr \in DOMAIN persisted, g \in Procs, h \in Procs :
    /\ HasRecord(persisted, pr, g) /\ HasRecord(persisted, pr, h)
    /\ RecordOf(persisted, pr, g).status = "failed"
    /\ RecordOf(persisted, pr, g).status_updated # NoTime
    /\ RecordOf(persisted, pr, g).tool_response # NoResponse
    /\ RecordOf(persisted, pr, h).status = "pending"
    /\ RecordOf(persisted, pr, h).status_updated = NoTime
    /\ \A p \in Procs : pc[p] = "done"

\* C37: the save of an after-mutation invocation leaves the status of
\* every record unchanged but that of the record its own operation's
\* before-mutation invocation created (the record keyed by that
\* invocation's commit).
C37_OwnRecordOnly ==
  [][\A p \in Procs :
       (/\ ev[p].kind = "post"
        /\ pc[p] = "rename" /\ pc'[p] = "release" /\ result'[p] = "none")
         => LET pr == ev[p].proj
            IN \A g \in Procs \ {ev[p].op} :
                 HasRecord(persisted, pr, g)
                   => /\ HasRecord(persisted', pr, g)
                      /\ RecordOf(persisted', pr, g).status
                           = RecordOf(persisted, pr, g).status]_vars

InAcquireLock(p) == pc[p] \in {"acquire", "stat", "unlink"}

\* C38: a process inside acquireLock eventually leaves it: it has the lock
\* (it is at the load), or the call has thrown the timeout error, or the
\* process was killed.
C38_AcquireTerminates ==
  \A p \in Procs :
    InAcquireLock(p)
      ~> (pc[p] = "load" \/ (pc[p] = "done" /\ result[p] = "timeout")
            \/ pc[p] = "dead")

\* C38 witness: a caller past its wait has deleted a marker it judged
\* stale and is at its retry, and another process has re-created the
\* marker in between.
C38_Witness ==
  \E p \in Procs :
    /\ pc[p] = "acquire" /\ seen[p] # NoProc
    /\ now - startTime[p] > maxWaitTime
    /\ lockFile.exists /\ lockFile.owner \notin {p, seen[p]}
    /\ lockFile.mtime = now

(* ---------------------------- specification --------------------------- *)
Next ==
  \/ Tick
  \/ \E p \in Procs :
       \/ Start(p)
       \/ InitProject(p)
       \/ InitCheckpointRepo(p)
       \/ Commit(p)
       \/ RevParse(p)
       \/ ListLatest(p)
       \/ TryLock(p)
       \/ Stat(p)
       \/ Unlink(p)
       \/ Load(p)
       \/ WriteOpen(p)
       \/ WriteData(p)
       \/ Rename(p)
       \/ SaveError(p)
       \/ ReleaseLock(p)
       \/ Kill(p)

Spec == Init /\ [][Next]_vars

\* The Metadata Store alone, called directly by concurrent processes.
NextStore ==
  \/ Tick
  \/ \E p \in Procs :
       \/ StartCall(p)
       \/ TryLock(p)
       \/ Stat(p)
       \/ Unlink(p)
       \/ Load(p)
       \/ WriteOpen(p)
       \/ WriteData(p)
       \/ Rename(p)
       \/ SaveError(p)
       \/ ReleaseLock(p)
       \/ Kill(p)

SpecStore == Init /\ [][NextStore]_vars

\* Concurrent direct calls in which the clock goes on and every caller
\* inside acquireLock is scheduled: setTimeout(resolve, waitInterval) fires
\* and the awaited open, stat and unlink complete.  Nothing is assumed of
\* a process that holds the lock.
NextStoreFair ==
  \/ Tick
  \/ \E p \in Procs :
       \/ StartCallInTime(p)
       \/ TryLock(p)
       \/ Stat(p)
       \/ Unlink(p)
       \/ Load(p)
       \/ WriteOpen(p)
       \/ WriteData(p)
       \/ Rename(p)
       \/ SaveError(p)
       \/ ReleaseLock(p)
       \/ Kill(p)

SpecStoreFair ==
  /\ Init /\ [][NextStoreFair]_vars
  /\ WF_vars(Tick)
  /\ \A p \in Procs : WF_vars(AcquireLock(p))

\* Hook invocations that run one at a time.
NextSeq ==
  \/ Tick
  \/ \E p \in Procs :
       \/ ReadEvent(p)
       \/ Dispatch(p)
       \/ InitProject(p)
       \/ InitCheckpointRepo(p)
       \/ Commit(p)
       \/ RevParse(p)
       \/ ListLatest(p)
       \/ TryLock(p)
       \/ Stat(p)
       \/ Unlink(p)
       \/ Load(p)
       \/ WriteOpen(p)
       \/ WriteData(p)
       \/ Rename(p)
       \/ SaveError(p)
       \/ ReleaseLock(p)
       \/ Kill(p)

SpecSeq == Init /\ [][NextSeq]_vars

\* The hook invocations of operations, one at a time.
NextOps ==
  \/ Tick
  \/ \E p \in Procs :
       \/ ReadOperation(p)
       \/ Dispatch(p)
       \/ InitProject(p)
       \/ InitCheckpointRepo(p)
       \/ Commit(p)
       \/ RevParse(p)
       \/ ListLatest(p)
       \/ TryLock(p)
       \/ Stat(p)
       \/ Unlink(p)
       \/ Load(p)
       \/ WriteOpen(p)
       \/ WriteData(p)
       \/ Rename(p)
       \/ SaveError(p)
       \/ ReleaseLock(p)
       \/ Kill(p)

SpecOps == Init /\ [][NextOps]_vars

\* Direct calls of the Metadata Store that run one at a time.
NextStoreSeq ==
  \/ Tick
  \/ \E p \in Procs :
       \/ StartCallAlone(p)
       \/ TryLock(p)
       \/ Stat(p)
       \/ Unlink(p)
       \/ Load(p)
       \/ WriteOpen(p)
       \/ WriteData(p)
       \/ Rename(p)
       \/ SaveError(p)
       \/ ReleaseLock(p)
       \/ Kill(p)

SpecStoreSeq == Init /\ [][NextStoreSeq]_vars

\* Concurrent direct calls on a document that another project shares.
SpecStoreShared == InitShared /\ [][NextStore]_vars

\* Calls on the GitCheckpointManager of a project, one after another, with
\* edits of the project in between.
NextRepo ==
  \/ EditProject
  \/ \E pr \in Projects : CreateCheckpoint(pr, {<<"x">>}, CreateSteps)
  \/ \E pr \in Projects :
       RestoreCheckpoint(pr, HashesOfCommits({"a"}), BOOLEAN, RestoreSteps)
  \/ \E pr \in Projects : GetCheckpointDiff(pr, NoHashes)

SpecRepo == Init /\ [][NextRepo]_vars

\* Checkpoints of a project that stays as it is, restoreCheckpoint with
\* every kind of hash argument, garbage collection and listings.
NextList ==
  \/ Tick
  \/ \E pr \in Projects :
       CreateCheckpoint(pr, Messages, {"none", "init", "revparse"})
  \/ \E pr \in Projects :
       RestoreCheckpoint(pr, HashArguments, BOOLEAN, {"none"})
  \/ \E pr \in Projects : ListCheckpoints(pr)
  \/ \E pr \in Projects : Prune(pr)

SpecList == Init /\ [][NextList]_vars

\* The same calls when the document is missing or unparsable at the start.
SpecStoreUnreadable == InitUnreadable /\ [][NextStoreSeq]_vars

\* A CheckpointConfig is constructed over whatever is at config.json and
\* asked about paths.
InitConfig ==
  /\ now = 0
  /\ lockFile = NoLock
  /\ metadataFile = NoFile
  /\ tempFile = NoFile
  /\ projectRepo = [pr \in Projects |-> FALSE]
  /\ shadow = [pr \in Projects |->
                 [state |-> "absent", commits |-> {}, head |-> NoHash]]
  /\ pc = [p \in Procs |-> "idle"]
  /\ ev = [p \in Procs |-> NoEvent]
  /\ startTime = [p \in Procs |-> NoTime]
  /\ target = [p \in Procs |-> NoHash]
  /\ mem = [p \in Procs |-> EmptyDoc]
  /\ result = [p \in Procs |-> "none"]
  /\ exitCode = [p \in Procs |-> NoExit]
  /\ seen = [p \in Procs |-> NoProc]
  /\ overtaken = [p \in Procs |-> FALSE]
  /\ ideal = EmptyDoc
  /\ projectTree = InitialTree
  /\ repo = NoRepo
  /\ last = NoCall
  /\ configFile \in ConfigFiles
  /\ config = NoConfig
  /\ probe = NoProbe

NextConfig ==
  \/ LoadConfig
  \/ ShouldExcludeFile

SpecConfig == InitConfig /\ [][NextConfig]_vars

====
